---- MODULE Spec2Model ----
(***************************************************************************)
(* Bulletpoints outline editor: the document tree mutation engine          *)
(* (reducer in src/hooks/useBulletpoints.tsx) and the structural helpers   *)
(* of src/utils.ts, as a state machine; the history manager                *)
(* (historyReducer) that wraps the reducer with undo and redo stacks; the  *)
(* visible list of src/utils.ts.                                           *)
(*                                                                         *)
(* A store (WorkflowyState) is a record                                    *)
(*    [items |-> function id -> Item, order |-> key order, rootId |-> id]  *)
(* `order` is the property enumeration order of the JavaScript object      *)
(* `items` (insertion order of the string keys), which findParentId's      *)
(* for-in loop follows.  Texts are sequences of characters so that the     *)
(* concatenation of MERGE_UP is computed.                                  *)
(***************************************************************************)
EXTENDS Naturals, Integers, Sequences, FiniteSets, TLC

\* ---------------------------------------------------------------- bounds
\* Longest dragIds list handed to MOVE_ITEMS.
MaxDrag == 2
\* Longest sequence of actions dispatched from the default store (Spec,
\* SpecHistory).
MaxSteps == 3
\* Number of TOGGLE_COLLAPSE edits made while a store is built for a single
\* call (SpecMove, SpecCall, SpecAny, SpecView).
MaxEdits == 1
\* Most lines of a text handed to parseImportText, and longest line.
MaxLines == 3
MaxLineLen == 3

\* ---------------------------------------------------------------- ids
INITIAL_ROOT_ID == "root"

\* the id getDefaultState generates for the starter child
firstChildId == "a"

\* every id an action operand may be: the root, the starter child and two
\* further ids (one that is not a key of items is a missing operand)
Ids == {INITIAL_ROOT_ID, firstChildId, "b", "c"}

\* JavaScript null / undefined for an id
Null == "null"

Positions == {"before", "after", "inside"}

FontSizes == {"small", "medium", "large"}

\* ---------------------------------------------------------------- sequences
Range(s) == {s[i] : i \in DOMAIN s}

\* Array.prototype.indexOf, 0-based, -1 when absent
IndexOf(s, x) ==
  IF x \in Range(s) THEN (CHOOSE i \in DOMAIN s : s[i] = x /\ \A j \in 1..(i - 1) : s[j] # x) - 1
  ELSE -1

\* Array.prototype.filter(c => c !== x)
Without(s, x) == SelectSeq(s, LAMBDA c : c # x)

\* Array.prototype.splice(start, deleteCount, ...ins) on a copy of s:
\* a negative start counts from the end, and both are clamped to the array
Splice(s, start, deleteCount, ins) ==
  LET len == Len(s)
      st  == IF start < 0 THEN (IF len + start < 0 THEN 0 ELSE len + start)
             ELSE IF start > len THEN len ELSE start
      dc  == IF deleteCount < 0 THEN 0
             ELSE IF deleteCount > len - st THEN len - st ELSE deleteCount
  IN SubSeq(s, 1, st) \o ins \o SubSeq(s, st + dc + 1, len)

\* ---------------------------------------------------------------- items
\* the item ADD_ITEM creates
NewItem(newId) ==
  [id |-> newId, text |-> <<>>, children |-> <<>>, isCompleted |-> FALSE,
   collapsed |-> FALSE, fontSize |-> "small"]

Has(st, id) == id \in DOMAIN st.items

\* newItems[k] = v : an existing key keeps its place, a new one goes last
Put(st, k, v) ==
  [st EXCEPT !.items = [x \in (DOMAIN st.items) \cup {k} |-> IF x = k THEN v ELSE st.items[x]],
             !.order = IF k \in DOMAIN st.items THEN st.order ELSE Append(st.order, k)]

\* delete newItems[k]
Del(st, k) ==
  [st EXCEPT !.items = [x \in (DOMAIN st.items) \ {k} |-> st.items[x]],
             !.order = Without(st.order, k)]

getDefaultState ==
  [items |-> [x \in {INITIAL_ROOT_ID, firstChildId} |->
                IF x = INITIAL_ROOT_ID
                THEN [id |-> INITIAL_ROOT_ID, text |-> <<"H">>, children |-> <<firstChildId>>,
                      isCompleted |-> FALSE, collapsed |-> FALSE, fontSize |-> "undefined"]
                ELSE [id |-> firstChildId, text |-> <<"W">>, children |-> <<>>,
                      isCompleted |-> FALSE, collapsed |-> FALSE, fontSize |-> "undefined"]],
   order |-> <<INITIAL_ROOT_ID, firstChildId>>,
   rootId |-> INITIAL_ROOT_ID]

\* ---------------------------------------------------------------- helpers
\* findParentId: the first key, in enumeration order, whose children hold childId
findParentId(st, childId) ==
  LET hits == {i \in DOMAIN st.order : childId \in Range(st.items[st.order[i]].children)}
  IN IF hits = {} THEN Null
     ELSE st.order[CHOOSE i \in hits : \A j \in hits : i <= j]

\* The loop of isAncestor below "stack = [...child.children]; while ... pop":
\* the subtree of `node` is searched depth first, last child first.  `chain`
\* holds the nodes being expanded; popping one of them again repeats the same
\* pops for ever.  Result: "found", "none", or "hang".
RECURSIVE SearchList(_, _, _, _, _)
SearchList(st, target, kids, i, chain) ==
  IF i = 0 THEN "none"
  ELSE LET c == kids[i]
       IN IF c = target THEN "found"
          ELSE IF c \in chain THEN "hang"
          ELSE LET sub == IF Has(st, c)
                          THEN SearchList(st, target, st.items[c].children,
                                          Len(st.items[c].children), chain \cup {c})
                          ELSE "none"
               IN IF sub = "none" THEN SearchList(st, target, kids, i - 1, chain)
                  ELSE sub

\* isAncestor(items, possibleAncestorId, childId): "true", "false" or "hang".
\* It is true when possibleAncestorId is childId or lies in childId's subtree.
isAncestor(st, possibleAncestorId, childId) ==
  IF possibleAncestorId = childId THEN "true"
  ELSE IF ~Has(st, childId) \/ Len(st.items[childId].children) = 0 THEN "false"
  ELSE LET r == SearchList(st, possibleAncestorId, st.items[childId].children,
                           Len(st.items[childId].children), {childId})
       IN IF r = "found" THEN "true" ELSE IF r = "none" THEN "false" ELSE "hang"

\* ---------------------------------------------------------------- results
\* What a call of the reducer comes to: it returns the store it was given
\* ("same": the very same reference), returns a new store ("new"), throws
\* ("throw": a TypeError or a RangeError; no store is returned), or never
\* returns ("hang").
Same(st)  == [tag |-> "same", st |-> st]
New(st)   == [tag |-> "new", st |-> st]
Throw(st) == [tag |-> "throw", st |-> st]
Hang(st)  == [tag |-> "hang", st |-> st]

\* ---------------------------------------------------------------- actions
ActAddItem(afterId, parentId, newId) ==
  [type |-> "ADD_ITEM", id |-> newId, parentId |-> parentId, otherId |-> afterId,
   dragIds |-> <<>>, position |-> "", text |-> <<>>, size |-> ""]
ActUpdateText(id, text) ==
  [type |-> "UPDATE_TEXT", id |-> id, parentId |-> Null, otherId |-> Null,
   dragIds |-> <<>>, position |-> "", text |-> text, size |-> ""]
ActDelete(id, parentId) ==
  [type |-> "DELETE", id |-> id, parentId |-> parentId, otherId |-> Null,
   dragIds |-> <<>>, position |-> "", text |-> <<>>, size |-> ""]
ActMergeUp(id, parentId, previousItemId) ==
  [type |-> "MERGE_UP", id |-> id, parentId |-> parentId, otherId |-> previousItemId,
   dragIds |-> <<>>, position |-> "", text |-> <<>>, size |-> ""]
ActIndent(id, parentId) ==
  [type |-> "INDENT", id |-> id, parentId |-> parentId, otherId |-> Null,
   dragIds |-> <<>>, position |-> "", text |-> <<>>, size |-> ""]
ActOutdent(id, parentId) ==
  [type |-> "OUTDENT", id |-> id, parentId |-> parentId, otherId |-> Null,
   dragIds |-> <<>>, position |-> "", text |-> <<>>, size |-> ""]
ActToggleCollapse(id) ==
  [type |-> "TOGGLE_COLLAPSE", id |-> id, parentId |-> Null, otherId |-> Null,
   dragIds |-> <<>>, position |-> "", text |-> <<>>, size |-> ""]
ActMoveItems(dragIds, targetId, position) ==
  [type |-> "MOVE_ITEMS", id |-> Null, parentId |-> Null, otherId |-> targetId,
   dragIds |-> dragIds, position |-> position, text |-> <<>>, size |-> ""]
ActChangeFontSize(id, size) ==
  [type |-> "CHANGE_FONT_SIZE", id |-> id, parentId |-> Null, otherId |-> Null,
   dragIds |-> <<>>, position |-> "", text |-> <<>>, size |-> size]
ActSetIsTask(id, isTask) ==
  [type |-> "SET_IS_TASK", id |-> id, parentId |-> Null, otherId |-> Null,
   dragIds |-> <<>>, position |-> "", text |-> <<>>, size |-> "", isTask |-> isTask]
ActToggleStyle(id, style) ==
  [type |-> "TOGGLE_STYLE", id |-> id, parentId |-> Null, otherId |-> Null,
   dragIds |-> <<>>, position |-> "", text |-> <<>>, size |-> "", style |-> style]
ActUndo ==
  [type |-> "UNDO", id |-> Null, parentId |-> Null, otherId |-> Null,
   dragIds |-> <<>>, position |-> "", text |-> <<>>, size |-> ""]
ActRedo ==
  [type |-> "REDO", id |-> Null, parentId |-> Null, otherId |-> Null,
   dragIds |-> <<>>, position |-> "", text |-> <<>>, size |-> ""]
ActLoadState(st) ==
  [type |-> "LOAD_STATE", id |-> Null, parentId |-> Null, otherId |-> Null,
   dragIds |-> <<>>, position |-> "", text |-> <<>>, size |-> "", state |-> st]
NoAction ==
  [type |-> "NONE", id |-> Null, parentId |-> Null, otherId |-> Null,
   dragIds |-> <<>>, position |-> "", text |-> <<>>, size |-> ""]

\* ---------------------------------------------------------------- reducer
\* ADD_ITEM splicing the new id in at the index of afterId
AddItem_BeforeAfterId(st, afterId, parentId, newId) ==
  IF ~Has(st, parentId) THEN Same(st)
  ELSE LET parent == st.items[parentId]
           s1 == Put(st, newId, NewItem(newId))
           index == IndexOf(parent.children, afterId)
           newChildren ==
             IF afterId # Null
             THEN IF index # -1 THEN Splice(parent.children, index, 0, <<newId>>)
                  ELSE Append(parent.children, newId)
             ELSE <<newId>> \o parent.children
       IN New(Put(s1, parentId, [parent EXCEPT !.children = newChildren]))

\* case 'ADD_ITEM' (afterId = Null: no afterId)
AddItem(st, afterId, parentId, newId) ==
  IF ~Has(st, parentId) THEN Same(st)
  ELSE LET parent == st.items[parentId]
           s1 == Put(st, newId, NewItem(newId))
           index == IndexOf(parent.children, afterId)
           newChildren ==
             IF afterId # Null
             THEN IF index # -1 THEN Splice(parent.children, index + 1, 0, <<newId>>)
                  ELSE Append(parent.children, newId)
             ELSE <<newId>> \o parent.children
       IN New(Put(s1, parentId, [parent EXCEPT !.children = newChildren]))

\* UPDATE_TEXT building the item anew instead of copying it
UpdateText_FreshItem(st, id, text) ==
  IF ~Has(st, id) THEN Same(st)
  ELSE New(Put(st, id, [NewItem(id) EXCEPT !.text = text]))

\* case 'UPDATE_TEXT'
UpdateText(st, id, text) ==
  IF ~Has(st, id) THEN Same(st)
  ELSE New(Put(st, id, [st.items[id] EXCEPT !.text = text]))

\* deleteRecursive(itemId) of case 'DELETE' over the list `kids` from index i:
\* children first, then the item itself.  `chain` holds the calls in progress;
\* meeting one of them again recurses without end, which the engine ends with
\* a RangeError (ok = FALSE); else st is the store left.
RECURSIVE deleteList(_, _, _, _)
deleteList(st, kids, i, chain) ==
  IF i > Len(kids) THEN [ok |-> TRUE, st |-> st]
  ELSE LET c == kids[i]
       IN IF ~Has(st, c) THEN deleteList(st, kids, i + 1, chain)
          ELSE IF c \in chain THEN [ok |-> FALSE, st |-> st]
          ELSE LET sub == deleteList(st, st.items[c].children, 1, chain \cup {c})
               IN IF ~sub.ok THEN sub
                  ELSE deleteList(Del(sub.st, c), kids, i + 1, chain)

deleteRecursive(st, itemId) == deleteList(st, <<itemId>>, 1, {})

\* DELETE removing the item alone, not its subtree
Delete_Shallow(st, id, parentId) ==
  IF ~Has(st, parentId) THEN Same(st)
  ELSE LET parent == st.items[parentId]
           s1 == Put(st, parentId, [parent EXCEPT !.children = Without(parent.children, id)])
       IN IF Has(s1, id) THEN New(Del(s1, id)) ELSE New(s1)

\* case 'DELETE'
Delete(st, id, parentId) ==
  IF ~Has(st, parentId) THEN Same(st)
  ELSE LET parent == st.items[parentId]
           s1 == Put(st, parentId, [parent EXCEPT !.children = Without(parent.children, id)])
           s2 == deleteRecursive(s1, id)
       IN IF ~s2.ok THEN Throw(st) ELSE New(s2.st)

\* MERGE_UP deleting id together with its subtree
MergeUp_DeleteSubtree(st, id, parentId, previousItemId) ==
  IF ~Has(st, id) \/ ~Has(st, previousItemId) \/ ~Has(st, parentId) THEN Same(st)
  ELSE LET item == st.items[id]
           prevItem == st.items[previousItemId]
           parent == st.items[parentId]
           newPrevText == prevItem.text \o item.text
           s1 == IF parentId = previousItemId
                 THEN Put(st, parentId,
                          [parent EXCEPT !.text = newPrevText,
                                         !.children = Splice(parent.children,
                                                             IndexOf(parent.children, id),
                                                             1, item.children)])
                 ELSE Put(Put(st, parentId,
                              [parent EXCEPT !.children = Without(parent.children, id)]),
                          previousItemId,
                          [prevItem EXCEPT !.text = newPrevText,
                                           !.children = prevItem.children \o item.children,
                                           !.collapsed = FALSE])
       IN New(deleteRecursive(s1, id).st)

\* MERGE_UP putting the children of id before those of previousItemId
MergeUp_ChildrenFirst(st, id, parentId, previousItemId) ==
  IF ~Has(st, id) \/ ~Has(st, previousItemId) \/ ~Has(st, parentId) THEN Same(st)
  ELSE LET item == st.items[id]
           prevItem == st.items[previousItemId]
           parent == st.items[parentId]
           newPrevText == prevItem.text \o item.text
           s1 == IF parentId = previousItemId
                 THEN Put(st, parentId,
                          [parent EXCEPT !.text = newPrevText,
                                         !.children = Splice(parent.children,
                                                             IndexOf(parent.children, id),
                                                             1, item.children)])
                 ELSE Put(Put(st, parentId,
                              [parent EXCEPT !.children = Without(parent.children, id)]),
                          previousItemId,
                          [prevItem EXCEPT !.text = newPrevText,
                                           !.children = item.children \o prevItem.children,
                                           !.collapsed = FALSE])
       IN New(Del(s1, id))

\* MERGE_UP without the test of prevItem: prevItem.text of a missing
\* previousItemId is a TypeError
MergeUp_NoPrevCheck(st, id, parentId, previousItemId) ==
  IF ~Has(st, id) \/ ~Has(st, parentId) THEN Same(st)
  ELSE IF ~Has(st, previousItemId) THEN Throw(st)
  ELSE LET item == st.items[id]
           prevItem == st.items[previousItemId]
           parent == st.items[parentId]
           newPrevText == prevItem.text \o item.text
           s1 == IF parentId = previousItemId
                 THEN Put(st, parentId,
                          [parent EXCEPT !.text = newPrevText,
                                         !.children = Splice(parent.children,
                                                             IndexOf(parent.children, id),
                                                             1, item.children)])
                 ELSE Put(Put(st, parentId,
                              [parent EXCEPT !.children = Without(parent.children, id)]),
                          previousItemId,
                          [prevItem EXCEPT !.text = newPrevText,
                                           !.children = prevItem.children \o item.children,
                                           !.collapsed = FALSE])
       IN New(Del(s1, id))

\* case 'MERGE_UP'
\* MERGE_UP leaving the merged item in items
MergeUp_KeepItem(st, id, parentId, previousItemId) ==
  IF ~Has(st, id) \/ ~Has(st, previousItemId) \/ ~Has(st, parentId) THEN Same(st)
  ELSE LET item == st.items[id]
           prevItem == st.items[previousItemId]
           parent == st.items[parentId]
           newPrevText == prevItem.text \o item.text
           s1 == IF parentId = previousItemId
                 THEN Put(st, parentId,
                          [parent EXCEPT !.text = newPrevText,
                                         !.children = Splice(parent.children,
                                                             IndexOf(parent.children, id),
                                                             1, item.children)])
                 ELSE Put(Put(st, parentId,
                              [parent EXCEPT !.children = Without(parent.children, id)]),
                          previousItemId,
                          [prevItem EXCEPT !.text = newPrevText,
                                           !.children = prevItem.children \o item.children,
                                           !.collapsed = FALSE])
       IN New(s1)

MergeUp(st, id, parentId, previousItemId) ==
  IF ~Has(st, id) \/ ~Has(st, previousItemId) \/ ~Has(st, parentId) THEN Same(st)
  ELSE LET item == st.items[id]
           prevItem == st.items[previousItemId]
           parent == st.items[parentId]
           newPrevText == prevItem.text \o item.text
           s1 == IF parentId = previousItemId
                 THEN Put(st, parentId,
                          [parent EXCEPT !.text = newPrevText,
                                         !.children = Splice(parent.children,
                                                             IndexOf(parent.children, id),
                                                             1, item.children)])
                 ELSE Put(Put(st, parentId,
                              [parent EXCEPT !.children = Without(parent.children, id)]),
                          previousItemId,
                          [prevItem EXCEPT !.text = newPrevText,
                                           !.children = prevItem.children \o item.children,
                                           !.collapsed = FALSE])
       IN New(Del(s1, id))

\* INDENT leaving the collapsed flag of the previous sibling as it is
Indent_KeepCollapsed(st, id, parentId) ==
  IF ~Has(st, parentId) THEN Same(st)
  ELSE LET parent == st.items[parentId]
           index == IndexOf(parent.children, id)
       IN IF index <= 0 THEN Same(st)
          ELSE LET prevSiblingId == parent.children[index]
               IN IF ~Has(st, prevSiblingId) THEN Throw(st)
                  ELSE LET prevSibling == st.items[prevSiblingId]
                           s1 == Put(st, parentId,
                                     [parent EXCEPT !.children = Without(parent.children, id)])
                       IN New(Put(s1, prevSiblingId,
                                  [prevSibling EXCEPT !.children = Append(prevSibling.children, id)]))

\* case 'INDENT'
Indent(st, id, parentId) ==
  IF ~Has(st, parentId) THEN Same(st)
  ELSE LET parent == st.items[parentId]
           index == IndexOf(parent.children, id)
       IN IF index <= 0 THEN Same(st)
          ELSE LET prevSiblingId == parent.children[index]
               IN IF ~Has(st, prevSiblingId) THEN Throw(st)
                  ELSE LET prevSibling == st.items[prevSiblingId]
                           s1 == Put(st, parentId,
                                     [parent EXCEPT !.children = Without(parent.children, id)])
                       IN New(Put(s1, prevSiblingId,
                                  [prevSibling EXCEPT !.children = Append(prevSibling.children, id),
                                                      !.collapsed = FALSE]))

\* OUTDENT splicing id in at the index of the parent
Outdent_BeforeParent(st, id, parentId) ==
  LET grandParentId == findParentId(st, parentId)
  IN IF grandParentId = Null THEN Same(st)
     ELSE IF ~Has(st, parentId) THEN Throw(st)
     ELSE LET grandParent == st.items[grandParentId]
              parent == st.items[parentId]
              parentIndex == IndexOf(grandParent.children, parentId)
              s1 == Put(st, parentId, [parent EXCEPT !.children = Without(parent.children, id)])
          IN New(Put(s1, grandParentId,
                     [grandParent EXCEPT !.children =
                        Splice(grandParent.children, parentIndex, 0, <<id>>)]))

\* case 'OUTDENT'
Outdent(st, id, parentId) ==
  LET grandParentId == findParentId(st, parentId)
  IN IF grandParentId = Null THEN Same(st)
     ELSE IF ~Has(st, parentId) THEN Throw(st)
     ELSE LET grandParent == st.items[grandParentId]
              parent == st.items[parentId]
              parentIndex == IndexOf(grandParent.children, parentId)
              s1 == Put(st, parentId, [parent EXCEPT !.children = Without(parent.children, id)])
          IN New(Put(s1, grandParentId,
                     [grandParent EXCEPT !.children =
                        Splice(grandParent.children, parentIndex + 1, 0, <<id>>)]))

\* case 'TOGGLE_COLLAPSE': items[id].collapsed of a missing id is a TypeError
ToggleCollapse(st, id) ==
  IF ~Has(st, id) THEN Throw(st)
  ELSE New(Put(st, id, [st.items[id] EXCEPT !.collapsed = ~st.items[id].collapsed]))

\* case 'CHANGE_FONT_SIZE'
ChangeFontSize(st, id, size) ==
  IF ~Has(st, id) THEN Same(st)
  ELSE New(Put(st, id, [st.items[id] EXCEPT !.fontSize = size]))

\* dragIds.some(otherId => otherId !== id && isAncestor(items, otherId, id)),
\* scanning dragIds from index j: "true", "false" or "hang"
RECURSIVE someOther(_, _, _, _)
someOther(st, dragIds, id, j) ==
  IF j > Len(dragIds) THEN "false"
  ELSE LET r == IF dragIds[j] # id THEN isAncestor(st, dragIds[j], id) ELSE "false"
       IN IF r = "false" THEN someOther(st, dragIds, id, j + 1) ELSE r

\* const topLevelDragIds = dragIds.filter(id => !dragIds.some(...))
topLevelDragIds(st, dragIds) ==
  SelectSeq(dragIds, LAMBDA id : someOther(st, dragIds, id, 1) = "false")

\* the filter never returns when one of its isAncestor calls does not
topLevelHangs(st, dragIds) ==
  \E i \in DOMAIN dragIds : someOther(st, dragIds, dragIds[i], 1) = "hang"

\* the guard of MOVE_ITEMS looking at the first reduced id only
moveGuard_FirstOnly(st, top, targetId, i) ==
  IF Len(top) = 0 THEN "pass"
  ELSE IF top[1] = targetId THEN "reject"
  ELSE LET r == isAncestor(st, top[1], targetId)
       IN IF r = "true" THEN "reject"
          ELSE IF r = "hang" THEN "hang"
          ELSE "pass"

\* for (const id of topLevelDragIds) if (id === targetId || isAncestor(items, id, targetId)) return state
\* from index i: "reject", "pass" or "hang"
RECURSIVE moveGuard(_, _, _, _)
moveGuard(st, top, targetId, i) ==
  IF i > Len(top) THEN "pass"
  ELSE IF top[i] = targetId THEN "reject"
  ELSE LET r == isAncestor(st, top[i], targetId)
       IN IF r = "true" THEN "reject"
          ELSE IF r = "hang" THEN "hang"
          ELSE moveGuard(st, top, targetId, i + 1)

\* topLevelDragIds.forEach(id => unlink id from findParentId(newItems, id)), from index i
RECURSIVE unlinkAll(_, _, _)
unlinkAll(st, top, i) ==
  IF i > Len(top) THEN st
  ELSE LET parentId == findParentId(st, top[i])
       IN IF parentId # Null
          THEN unlinkAll(Put(st, parentId,
                             [st.items[parentId] EXCEPT
                                !.children = Without(st.items[parentId].children, top[i])]),
                         top, i + 1)
          ELSE unlinkAll(st, top, i + 1)

\* position === 'inside': newItems[targetId] = {...target, children:
\* [...target.children, ...topLevelDragIds], collapsed: false}
insertInside_Prepend(s1, top, targetId) ==
  Put(s1, targetId,
      [s1.items[targetId] EXCEPT !.children = top \o s1.items[targetId].children,
                                 !.collapsed = FALSE])

insertInside(s1, top, targetId) ==
  Put(s1, targetId,
      [s1.items[targetId] EXCEPT !.children = s1.items[targetId].children \o top,
                                 !.collapsed = FALSE])

\* position 'before' / 'after': splice topLevelDragIds into the children of
\* the target's parent at targetIndex, resp. targetIndex + 1
insertBeside_Swapped(s1, top, targetId, targetParentId, position) ==
  LET targetParent == s1.items[targetParentId]
      targetIndex == IndexOf(targetParent.children, targetId)
  IN Put(s1, targetParentId,
         [targetParent EXCEPT !.children =
            IF position = "before"
            THEN Splice(targetParent.children, targetIndex + 1, 0, top)
            ELSE Splice(targetParent.children, targetIndex, 0, top)])

insertBeside(s1, top, targetId, targetParentId, position) ==
  LET targetParent == s1.items[targetParentId]
      targetIndex == IndexOf(targetParent.children, targetId)
  IN Put(s1, targetParentId,
         [targetParent EXCEPT !.children =
            IF position = "before"
            THEN Splice(targetParent.children, targetIndex, 0, top)
            ELSE Splice(targetParent.children, targetIndex + 1, 0, top)])

\* case 'MOVE_ITEMS'
MoveItems(st, dragIds, targetId, position) ==
  IF topLevelHangs(st, dragIds) THEN Hang(st)
  ELSE LET top == topLevelDragIds(st, dragIds)
           g == moveGuard(st, top, targetId, 1)
       IN IF Len(top) = 0 THEN Same(st)
          ELSE IF g = "reject" THEN Same(st)
          ELSE IF g = "hang" THEN Hang(st)
          ELSE LET s1 == unlinkAll(st, top, 1)
               IN IF position = "inside"
                  THEN IF ~Has(s1, targetId) THEN Throw(st)
                       ELSE New(insertInside(s1, top, targetId))
                  ELSE LET targetParentId == findParentId(s1, targetId)
                       IN IF targetParentId = Null THEN New(s1)
                          ELSE New(insertBeside(s1, top, targetId, targetParentId, position))

\* const reducer = (state, action) => switch (action.type)
reducer(st, action) ==
  CASE action.type = "LOAD_STATE" -> New(action.state)
    [] action.type = "ADD_ITEM" -> AddItem(st, action.otherId, action.parentId, action.id)
    [] action.type = "UPDATE_TEXT" -> UpdateText(st, action.id, action.text)
    [] action.type = "DELETE" -> Delete(st, action.id, action.parentId)
    [] action.type = "MERGE_UP" -> MergeUp(st, action.id, action.parentId, action.otherId)
    [] action.type = "INDENT" -> Indent(st, action.id, action.parentId)
    [] action.type = "OUTDENT" -> Outdent(st, action.id, action.parentId)
    [] action.type = "TOGGLE_COLLAPSE" -> ToggleCollapse(st, action.id)
    [] action.type = "MOVE_ITEMS" -> MoveItems(st, action.dragIds, action.otherId, action.position)
    [] action.type = "CHANGE_FONT_SIZE" -> ChangeFontSize(st, action.id, action.size)
    [] OTHER -> Same(st)

\* ---------------------------------------------------------------- writes
\* The objects a call of the reducer writes to.  An object is either one that
\* the store given to the call reaches (the items map, an item, a children
\* array) or one that the call has created.
InputItems == [name |-> "items", input |-> TRUE]

\* { ...o } and [ ...o ]: a new object with the properties / elements of o
Spread(o, name) == [name |-> name, input |-> FALSE]

\* one assignment, delete, splice, push or unshift: the line and the object
Write(line, o) == [line |-> line, object |-> o]

\* ADD_ITEM: newItems[newId] = ..., newChildren.splice / push / unshift,
\* newItems[parentId] = ...
writesOfAddItem(st, action) ==
  LET newItems == Spread(InputItems, "newItems")
      newChildren == Spread([name |-> "children", input |-> TRUE], "newChildren")
      index == IndexOf(st.items[action.parentId].children, action.otherId)
  IN {Write(40, newItems), Write(54, newItems),
      Write(IF action.otherId = Null THEN 51 ELSE IF index # 0 THEN 46 ELSE 48,
            newChildren)}

\* DELETE with newItems bound to items itself
writesOfDelete_InPlace(st, action) ==
  LET newItems == InputItems
  IN {Write(79, newItems)}
     \cup (IF Has(st, action.id) THEN {Write(89, newItems)} ELSE {})

\* DELETE: newItems[parentId] = ..., and delete newItems[itemId] for every
\* item deleteRecursive finds
writesOfDelete(st, action) ==
  LET newItems == Spread(InputItems, "newItems")
  IN {Write(79, newItems)}
     \cup (IF Has(st, action.id) THEN {Write(89, newItems)} ELSE {})

\* MERGE_UP: newChildren.splice and newItems[parentId] = ..., or
\* newItems[parentId] = ... and newItems[previousItemId] = ...; delete
\* newItems[id]
writesOfMergeUp(st, action) ==
  LET newItems == Spread(InputItems, "newItems")
      newChildren == Spread([name |-> "children", input |-> TRUE], "newChildren")
  IN (IF action.parentId = action.otherId
      THEN {Write(115, newChildren), Write(117, newItems)}
      ELSE {Write(125, newItems), Write(131, newItems)})
     \cup {Write(140, newItems)}

\* INDENT: newItems[parentId] = ..., newItems[prevSiblingId] = ...
writesOfIndent(st, action) ==
  LET newItems == Spread(InputItems, "newItems")
  IN {Write(159, newItems), Write(165, newItems)}

\* OUTDENT: newItems[parentId] = ..., newGrandParentChildren.splice,
\* newItems[grandParentId] = ...
writesOfOutdent(st, action) ==
  LET newItems == Spread(InputItems, "newItems")
      newGrandParentChildren ==
        Spread([name |-> "children", input |-> TRUE], "newGrandParentChildren")
  IN {Write(187, newItems), Write(194, newGrandParentChildren), Write(196, newItems)}

\* MOVE_ITEMS: newItems[parentId] = ... for every unlinked id, then
\* newItems[targetId] = ..., or newChildren.splice and
\* newItems[targetParentId] = ...
writesOfMoveItems(st, action) ==
  LET newItems == Spread(InputItems, "newItems")
      newChildren == Spread([name |-> "children", input |-> TRUE], "newChildren")
      top == topLevelDragIds(st, action.dragIds)
      unlinked == \E i \in 1..Len(top) : findParentId(st, top[i]) # Null
      s1 == unlinkAll(st, top, 1)
  IN (IF unlinked THEN {Write(242, newItems)} ELSE {})
     \cup (IF action.position = "inside" THEN {Write(251, newItems)}
           ELSE IF findParentId(s1, action.otherId) = Null THEN {}
           ELSE {Write(IF action.position = "before" THEN 264 ELSE 266, newChildren),
                 Write(269, newItems)})

\* the writes of a call that returns a new store; UPDATE_TEXT,
\* TOGGLE_COLLAPSE and CHANGE_FONT_SIZE build their result from object
\* literals and write nothing, and so does a call that returns `state`
writeTargets(st, action) ==
  IF reducer(st, action).tag # "new" THEN {}
  ELSE CASE action.type = "ADD_ITEM" -> writesOfAddItem(st, action)
         [] action.type = "DELETE" -> writesOfDelete(st, action)
         [] action.type = "MERGE_UP" -> writesOfMergeUp(st, action)
         [] action.type = "INDENT" -> writesOfIndent(st, action)
         [] action.type = "OUTDENT" -> writesOfOutdent(st, action)
         [] action.type = "MOVE_ITEMS" -> writesOfMoveItems(st, action)
         [] OTHER -> {}

\* ---------------------------------------------------------------- history manager
\* HistoryState: past, present, future and lastAction (NoAction when undefined)
HistoryState(pa, pr, fu, la) ==
  [past |-> pa, present |-> pr, future |-> fu, lastAction |-> la]

\* what historyReducer returns: the very state it was given ("same"), or a new
\* one; a reducer call that throws or hangs leaves none
SameHistory(h) == [tag |-> "same", h |-> h]
NewHistory(h) == [tag |-> "new", h |-> h]

\* case 'UNDO' leaving past as it is
historyUndo_KeepPast(h) ==
  IF Len(h.past) = 0 THEN SameHistory(h)
  ELSE LET previous == h.past[Len(h.past)]
       IN NewHistory(HistoryState(h.past, previous, <<h.present>> \o h.future, NoAction))

\* case 'UNDO'
historyUndo(h) ==
  IF Len(h.past) = 0 THEN SameHistory(h)
  ELSE LET previous == h.past[Len(h.past)]
           newPast == SubSeq(h.past, 1, Len(h.past) - 1)
       IN NewHistory(HistoryState(newPast, previous, <<h.present>> \o h.future, NoAction))

\* case 'REDO' leaving future as it is
historyRedo_KeepFuture(h) ==
  IF Len(h.future) = 0 THEN SameHistory(h)
  ELSE LET next == h.future[1]
       IN NewHistory(HistoryState(Append(h.past, h.present), next, h.future, NoAction))

\* case 'REDO'
historyRedo(h) ==
  IF Len(h.future) = 0 THEN SameHistory(h)
  ELSE LET next == h.future[1]
           newFuture == SubSeq(h.future, 2, Len(h.future))
       IN NewHistory(HistoryState(Append(h.past, h.present), next, newFuture, NoAction))

\* case 'LOAD_STATE' leaving past as it is
historyLoadState_KeepPast(h, action) ==
  NewHistory(HistoryState(h.past, action.state, <<>>, NoAction))

\* case 'LOAD_STATE'
historyLoadState(h, action) ==
  NewHistory(HistoryState(<<>>, action.state, <<>>, NoAction))

\* the test for merging consecutive text updates on the same item, merging never
mergesText_Never(h, action) == FALSE

\* the test for merging consecutive text updates on the same item
mergesText(h, action) ==
  /\ action.type = "UPDATE_TEXT"
  /\ h.lastAction.type = "UPDATE_TEXT"
  /\ h.lastAction.id = action.id

\* the merged return: past is kept, future is cleared
mergeText(h, newPresent, action) ==
  [h EXCEPT !.present = newPresent, !.lastAction = action, !.future = <<>>]

\* the standard history push keeping future
standardPush_KeepFuture(h, newPresent, action) ==
  HistoryState(Append(h.past, h.present), newPresent, h.future, action)

\* the standard history push
standardPush(h, newPresent, action) ==
  HistoryState(Append(h.past, h.present), newPresent, <<>>, action)

\* the default case pushing whether or not the reducer returned its input
historyDefault_NoIdentityTest(h, action) ==
  LET r == reducer(h.present, action)
  IN IF r.tag \in {"throw", "hang"} THEN [tag |-> r.tag, h |-> h]
     ELSE IF mergesText(h, action) THEN NewHistory(mergeText(h, r.st, action))
     ELSE NewHistory(standardPush(h, r.st, action))

\* default case: the reducer runs on present; a result identical to present
\* returns the history state itself
historyDefault(h, action) ==
  LET r == reducer(h.present, action)
  IN IF r.tag \in {"throw", "hang"} THEN [tag |-> r.tag, h |-> h]
     ELSE IF r.tag = "same" THEN SameHistory(h)
     ELSE IF mergesText(h, action) THEN NewHistory(mergeText(h, r.st, action))
     ELSE NewHistory(standardPush(h, r.st, action))

historyReducer(h, action) ==
  CASE action.type = "UNDO" -> historyUndo(h)
    [] action.type = "REDO" -> historyRedo(h)
    [] action.type = "LOAD_STATE" -> historyLoadState(h, action)
    [] OTHER -> historyDefault(h, action)

\* ---------------------------------------------------------------- visible list
\* getVisibleFlatList(items, rootId, list): the ids shown under rootId, in
\* display order, pushed onto list
RECURSIVE getVisibleFlatList(_, _, _)
RECURSIVE pushChildren(_, _, _, _)

\* the loop over root.children from its i-th element on: the child is pushed,
\* then its own visible list when it exists, is not collapsed and has children
pushChildren(st, children, i, list) ==
  IF i > Len(children) THEN list
  ELSE LET childId == children[i]
           pushed == Append(list, childId)
           recurse ==
             /\ Has(st, childId)
             /\ ~st.items[childId].collapsed
             /\ Len(st.items[childId].children) > 0
       IN pushChildren(st, children, i + 1,
                       IF recurse THEN getVisibleFlatList(st, childId, pushed)
                       ELSE pushed)

\* getVisibleFlatList returning nothing under a collapsed rootId
getVisibleFlatList_RootCollapsed(st, rootId, list) ==
  IF ~Has(st, rootId) \/ st.items[rootId].collapsed THEN list
  ELSE pushChildren(st, st.items[rootId].children, 1, list)

getVisibleFlatList(st, rootId, list) ==
  IF ~Has(st, rootId) THEN list
  ELSE pushChildren(st, st.items[rootId].children, 1, list)

\* ---------------------------------------------------------------- import
\* A text is a sequence of lines (text.split(/\r?\n/)), a line a sequence of
\* characters.
LineChars == {"-", "x"}

\* line.match(/^(-*)/)[1].length: the number of leading hyphens
RECURSIVE leadingHyphens(_)
leadingHyphens(line) ==
  IF line = <<>> \/ Head(line) # "-" THEN 0
  ELSE 1 + leadingHyphens(Tail(line))

\* the ids generateId returns for the lines, one after the other
ImportIds == <<"a", "b", "c", "d", "e">>

\* an empty slot of parentStack (undefined)
Hole == Null

\* the item of a line
ImportedItem(id, content) ==
  [id |-> id, text |-> content, children |-> <<>>, isCompleted |-> FALSE,
   collapsed |-> FALSE, fontSize |-> "small"]

\* the store parseImportText starts from: the root alone
ImportRoot ==
  [items |-> [x \in {INITIAL_ROOT_ID} |->
                [id |-> INITIAL_ROOT_ID, text |-> <<"H">>, children |-> <<>>,
                 isCompleted |-> FALSE, collapsed |-> FALSE, fontSize |-> "undefined"]],
   order |-> <<INITIAL_ROOT_ID>>,
   rootId |-> INITIAL_ROOT_ID]

\* parentStack[depth + 1] = id; parentStack.length = depth + 2
\* (parentStack[0] of the code is stack[1] here)
stackAfter(stack, depth, id) ==
  [i \in 1..(depth + 2) |->
     IF i = depth + 2 THEN id
     ELSE IF i <= Len(stack) THEN stack[i]
     ELSE Hole]

\* the body of lines.forEach: imp is [st, parentStack, count]
importLine(imp, line) ==
  IF Len(line) = 0 THEN imp
  ELSE LET depth == leadingHyphens(line)
           content == SubSeq(line, depth + 1, Len(line))
           id == ImportIds[imp.count + 1]
           s1 == Put(imp.st, id, ImportedItem(id, content))
           parentIndex == IF depth >= Len(imp.parentStack)
                          THEN Len(imp.parentStack) - 1 ELSE depth
           parentId == imp.parentStack[parentIndex + 1]
           s2 == IF parentId # Hole /\ Has(s1, parentId)
                 THEN Put(s1, parentId,
                          [s1.items[parentId] EXCEPT !.children = Append(@, id)])
                 ELSE s1
       IN [st |-> s2,
           parentStack |-> stackAfter(imp.parentStack, depth, id),
           count |-> imp.count + 1]

RECURSIVE importLines(_, _, _)
importLines(imp, lines, i) ==
  IF i > Len(lines) THEN imp
  ELSE importLines(importLine(imp, lines[i]), lines, i + 1)

parseImportText(lines) ==
  importLines([st |-> ImportRoot, parentStack |-> <<INITIAL_ROOT_ID>>, count |-> 0],
              lines, 1).st

\* ---------------------------------------------------------------- export
\* The tags of an item's html; every other character is text.
Tags == {"<b>", "</b>"}

\* tmp.innerHTML = html; tmp.textContent
stripHtml(html) == SelectSeq(html, LAMBDA ch : ch \notin Tags)

\* '-'.repeat(depth)
prefix(depth) == [i \in 1..depth |-> "-"]

\* what String.prototype.trim removes
WhiteSpace == {"\n", " "}

RECURSIVE trimStart(_)
trimStart(str) ==
  IF str # <<>> /\ Head(str) \in WhiteSpace THEN trimStart(Tail(str)) ELSE str

RECURSIVE trimEnd(_)
trimEnd(str) ==
  IF str # <<>> /\ str[Len(str)] \in WhiteSpace
  THEN trimEnd(SubSeq(str, 1, Len(str) - 1)) ELSE str

trim(str) == trimEnd(trimStart(str))

\* processList(itemIds, depth): what it appends to output
RECURSIVE processList(_, _, _)
processList(st, itemIds, depth) ==
  IF itemIds = <<>> THEN <<>>
  ELSE LET id == Head(itemIds)
           rest == processList(st, Tail(itemIds), depth)
       IN IF ~Has(st, id) THEN rest
          ELSE prefix(depth) \o stripHtml(st.items[id].text) \o <<"\n">>
               \o (IF Len(st.items[id].children) > 0
                   THEN processList(st, st.items[id].children, depth + 1)
                   ELSE <<>>)
               \o rest

exportToText(st, rootId) ==
  trim(IF Has(st, rootId) THEN processList(st, st.items[rootId].children, 0)
       ELSE <<>>)

\* ---------------------------------------------------------------- tree shape
\* the ids that are a child of k
Kids(st, k) == IF Has(st, k) THEN Range(st.items[k].children) ELSE {}

\* the keys whose children list holds id
ParentsOf(st, id) == {k \in DOMAIN st.items : id \in Range(st.items[k].children)}

\* the ids reachable from the ids of S by one or more children links
RECURSIVE ReachFrom(_, _, _)
ReachFrom(st, S, seen) ==
  LET next == (UNION {Kids(st, k) : k \in S}) \ seen
  IN IF next = {} THEN seen ELSE ReachFrom(st, next, seen \cup next)

Descendants(st, id) == ReachFrom(st, {id}, {})

NoDuplicates(st) ==
  \A k \in DOMAIN st.items :
    \A i, j \in DOMAIN st.items[k].children :
      st.items[k].children[i] = st.items[k].children[j] => i = j

\* the invariants of the store: the root is a key and nobody's child, every
\* child is a key, no list repeats an id, every other key has one parent and
\* is reachable from the root (hence no cycle)
WellFormed(st) ==
  /\ Has(st, st.rootId)
  /\ ParentsOf(st, st.rootId) = {}
  /\ \A k \in DOMAIN st.items : Kids(st, k) \subseteq DOMAIN st.items
  /\ NoDuplicates(st)
  /\ \A k \in DOMAIN st.items \ {st.rootId} : Cardinality(ParentsOf(st, k)) = 1
  /\ DOMAIN st.items = {st.rootId} \cup Descendants(st, st.rootId)

\* ---------------------------------------------------------------- state
VARIABLES
  state,     \* the store the engine holds (WorkflowyState)
  prev,      \* the store the last recorded call was given
  act,       \* the action of the last recorded call
  outcome,   \* how the last call ended: "ok", "throw" or "hang"
  same,      \* whether the last recorded call returned the store it was given
  steps,     \* number of actions dispatched so far
  used,      \* every id that has been a key of items in this session
  edits,     \* number of content / display edits so far
  phase,     \* "run" (engine), "build" / "applied" / "listed" (single call on a
             \* built store), "history" (history manager)
  past,      \* HistoryState.past: the stores Undo can go back to, oldest first
  future,    \* HistoryState.future: the stores Redo can go to, nearest first
  lastAction,\* HistoryState.lastAction (NoAction when undefined)
  before,    \* past, future, lastAction and act before the last dispatch
  burst,     \* the run of UPDATE_TEXT actions on one item that is under way
  run,       \* the store-changing actions dispatched in a row up to now: for
             \* each the store it was given, and whether it was merged
  view,      \* the last list getVisibleFlatList returned, and its rootId
  txt,       \* the text handed to parseImportText or returned by exportToText
  hook       \* useBulletpoints: loading, isInitialLoad, saveStatus, the load
             \* under way, the timers, and the stored documents

vars ==
  <<state, prev, act, outcome, same, steps, used, edits, phase,
    past, future, lastAction, before, burst, run, view, txt, hook>>

\* no run of text edits is under way; no list has been computed
NoBurst == [id |-> Null, base |-> getDefaultState, past |-> <<>>, text |-> <<>>, k |-> 0]
NoBefore == [past |-> <<>>, future |-> <<>>, lastAction |-> NoAction, act |-> NoAction]
NoView == [rootId |-> Null, list |-> <<>>]

\* the history manager's fields other than present, and the view, at start
\* the hook before it is mounted
NoDocument == [exists |-> FALSE, doc |-> getDefaultState, writer |-> "none"]
NoTimeout == [set |-> FALSE, state |-> getDefaultState]
NoHook ==
  [db |-> FALSE, loading |-> TRUE, isInitialLoad |-> TRUE, saveStatus |-> "saved",
   load |-> "none", delay |-> FALSE, timeoutId |-> NoTimeout,
   deps |-> [state |-> getDefaultState, loading |-> TRUE],
   remote |-> NoDocument, local |-> NoDocument, loaded |-> FALSE]

HistoryInit ==
  /\ past = <<>>
  /\ future = <<>>
  /\ lastAction = NoAction
  /\ before = NoBefore
  /\ burst = NoBurst
  /\ run = <<>>
  /\ view = NoView
  /\ txt = <<>>
  /\ hook = NoHook

\* ---------------------------------------------------------------- inputs
\* the texts UPDATE_TEXT may set
Texts == {<<>>, <<"x">>}

\* the dragIds lists: every list of 1..MaxDrag ids
DragLists == UNION {[1..n -> Ids] : n \in 1..MaxDrag}

IsEdit(a) == a.type \in {"UPDATE_TEXT", "CHANGE_FONT_SIZE", "TOGGLE_COLLAPSE"}

AddItemActions ==
  {ActAddItem(afterId, parentId, newId) :
     afterId \in Ids \cup {Null}, parentId \in Ids, newId \in Ids}
UpdateTextActions == {ActUpdateText(id, text) : id \in Ids, text \in Texts}
DeleteActions == {ActDelete(id, parentId) : id \in Ids, parentId \in Ids}
MergeUpActions ==
  {ActMergeUp(id, parentId, previousItemId) :
     id \in Ids, parentId \in Ids, previousItemId \in Ids}
IndentActions == {ActIndent(id, parentId) : id \in Ids, parentId \in Ids}
OutdentActions == {ActOutdent(id, parentId) : id \in Ids, parentId \in Ids}
ToggleCollapseActions == {ActToggleCollapse(id) : id \in Ids}
MoveItemsActions ==
  {ActMoveItems(dragIds, targetId, position) :
     dragIds \in DragLists, targetId \in Ids, position \in Positions}
ChangeFontSizeActions == {ActChangeFontSize(id, size) : id \in Ids, size \in FontSizes}
Styles == {"bold", "italic", "underline"}
SetIsTaskActions == {ActSetIsTask(id, isTask) : id \in Ids, isTask \in BOOLEAN}
ToggleStyleActions == {ActToggleStyle(id, style) : id \in Ids, style \in Styles}

\* ---------------------------------------------------------------- engine
\* generateId returns an id that never was a key: the first one of the id
\* universe, in a fixed order, that is not used (Null when all are used)
generateId ==
  LET order == <<"b", "c">>
      free == {i \in 1..Len(order) : order[i] \notin used}
  IN IF free = {} THEN Null
     ELSE order[CHOOSE i \in free : \A j \in free : i <= j]

\* One dispatched action: the reducer runs on `state`.  A call that throws or
\* hangs leaves no new store, and ends the session.
CanDispatch ==
  /\ phase = "run"
  /\ outcome = "ok"
  /\ steps < MaxSteps

Dispatch(a) ==
  /\ CanDispatch
  /\ \E r \in {reducer(state, a)} :
       /\ state' = r.st
       /\ outcome' = IF r.tag \in {"same", "new"} THEN "ok" ELSE r.tag
       /\ steps' = steps + 1
       /\ used' = used \cup DOMAIN r.st.items
       /\ UNCHANGED <<prev, act, same, edits, phase, past, future, lastAction, before, burst, run, view, txt, hook>>

\* newId is a freshly generated id
DoAddItem ==
  /\ CanDispatch
  /\ \E a \in AddItemActions :
       /\ a.type = "ADD_ITEM"
       /\ a.id = generateId
       /\ Dispatch(a)

DoUpdateText ==
  /\ CanDispatch
  /\ \E a \in UpdateTextActions :
       /\ a.type = "UPDATE_TEXT"
       /\ Dispatch(a)

DoDelete ==
  /\ CanDispatch
  /\ \E a \in DeleteActions :
       /\ a.type = "DELETE"
       /\ Dispatch(a)

DoMergeUp ==
  /\ CanDispatch
  /\ \E a \in MergeUpActions :
       /\ a.type = "MERGE_UP"
       /\ Dispatch(a)

DoIndent ==
  /\ CanDispatch
  /\ \E a \in IndentActions :
       /\ a.type = "INDENT"
       /\ Dispatch(a)

DoOutdent ==
  /\ CanDispatch
  /\ \E a \in OutdentActions :
       /\ a.type = "OUTDENT"
       /\ Dispatch(a)

DoToggleCollapse ==
  /\ CanDispatch
  /\ \E a \in ToggleCollapseActions :
       /\ a.type = "TOGGLE_COLLAPSE"
       /\ Dispatch(a)

DoMoveItems ==
  /\ CanDispatch
  /\ \E a \in MoveItemsActions :
       /\ a.type = "MOVE_ITEMS"
       /\ Dispatch(a)

DoChangeFontSize ==
  /\ CanDispatch
  /\ \E a \in ChangeFontSizeActions :
       /\ a.type = "CHANGE_FONT_SIZE"
       /\ Dispatch(a)


Init ==
  /\ state = getDefaultState
  /\ prev = getDefaultState
  /\ act = NoAction
  /\ outcome = "ok"
  /\ same = FALSE
  /\ steps = 0
  /\ used = DOMAIN getDefaultState.items
  /\ edits = 0
  /\ phase = "run"
  /\ HistoryInit

Next ==
  \/ DoAddItem
  \/ DoUpdateText
  \/ DoDelete
  \/ DoMergeUp
  \/ DoIndent
  \/ DoOutdent
  \/ DoToggleCollapse
  \/ DoMoveItems
  \/ DoChangeFontSize

\* The mutation engine from the default store: every sequence of at most
\* MaxSteps actions, with any operands (the id of a new item being fresh).
Spec == Init /\ [][Next]_vars

\* ---------------------------------------------------------------- single call
\* A store is built from the default store by ADD_ITEM, INDENT, OUTDENT and
\* TOGGLE_COLLAPSE calls that keep it well formed; then one call of the reducer
\* is recorded with the store it was given, its action and its result.
Building == phase = "build"

Build(a) ==
  /\ Building
  /\ IsEdit(a) => edits < MaxEdits
  /\ \E r \in {reducer(state, a)} :
       /\ r.tag = "new"
       /\ WellFormed(r.st)
       /\ state' = r.st
       /\ edits' = IF IsEdit(a) THEN edits + 1 ELSE edits
       /\ used' = used \cup DOMAIN r.st.items
       /\ UNCHANGED <<prev, act, outcome, same, steps, phase, past, future, lastAction, before, burst, run, view, txt, hook>>

Apply(a) ==
  /\ Building
  /\ \E r \in {reducer(state, a)} :
       /\ phase' = "applied"
       /\ prev' = state
       /\ act' = a
       /\ state' = r.st
       /\ outcome' = IF r.tag \in {"same", "new"} THEN "ok" ELSE r.tag
       /\ same' = (r.tag = "same")
       /\ UNCHANGED <<steps, used, edits, past, future, lastAction, before, burst, run, view, txt, hook>>

BuildAddItem ==
  /\ Building
  /\ \E a \in AddItemActions :
       /\ a.type = "ADD_ITEM"
       /\ a.id = generateId
       /\ Build(a)

BuildIndent ==
  /\ Building
  /\ \E a \in IndentActions :
       /\ a.type = "INDENT"
       /\ Build(a)

BuildOutdent ==
  /\ Building
  /\ \E a \in OutdentActions :
       /\ a.type = "OUTDENT"
       /\ Build(a)

BuildToggleCollapse ==
  /\ Building
  /\ \E a \in ToggleCollapseActions :
       /\ a.type = "TOGGLE_COLLAPSE"
       /\ Build(a)


BuildStructure ==
  \/ BuildAddItem
  \/ BuildIndent
  \/ BuildOutdent
  \/ BuildToggleCollapse

InitBuild ==
  /\ state = getDefaultState
  /\ prev = getDefaultState
  /\ act = NoAction
  /\ outcome = "ok"
  /\ same = FALSE
  /\ steps = 0
  /\ used = DOMAIN getDefaultState.items
  /\ edits = 0
  /\ phase = "build"
  /\ HistoryInit

ApplyMoveItems ==
  /\ Building
  /\ \E a \in MoveItemsActions :
       /\ a.type = "MOVE_ITEMS"
       /\ Apply(a)

NextMove == BuildStructure \/ ApplyMoveItems

\* One MOVE_ITEMS call, with any operands, on any well-formed store.
SpecMove == InitBuild /\ [][NextMove]_vars

\* ---------------------------------------------------------------- any one call
\* The store of the recorded call may also have had a text set.
BuildUpdateText ==
  /\ Building
  /\ \E a \in UpdateTextActions :
       /\ a.type = "UPDATE_TEXT"
       /\ Build(a)

BuildCall == BuildStructure \/ BuildUpdateText

ApplyAddItem ==
  /\ Building
  /\ \E a \in AddItemActions :
       /\ a.type = "ADD_ITEM"
       /\ a.id = generateId
       /\ Apply(a)

ApplyUpdateText ==
  /\ Building
  /\ \E a \in UpdateTextActions :
       /\ a.type = "UPDATE_TEXT"
       /\ Apply(a)

ApplyDelete ==
  /\ Building
  /\ \E a \in DeleteActions :
       /\ a.type = "DELETE"
       /\ Apply(a)

ApplyMergeUp ==
  /\ Building
  /\ \E a \in MergeUpActions :
       /\ a.type = "MERGE_UP"
       /\ Apply(a)

ApplyIndent ==
  /\ Building
  /\ \E a \in IndentActions :
       /\ a.type = "INDENT"
       /\ Apply(a)

ApplyOutdent ==
  /\ Building
  /\ \E a \in OutdentActions :
       /\ a.type = "OUTDENT"
       /\ Apply(a)

ApplyToggleCollapse ==
  /\ Building
  /\ \E a \in ToggleCollapseActions :
       /\ a.type = "TOGGLE_COLLAPSE"
       /\ Apply(a)

ApplyChangeFontSize ==
  /\ Building
  /\ \E a \in ChangeFontSizeActions :
       /\ a.type = "CHANGE_FONT_SIZE"
       /\ Apply(a)

ApplySetIsTask ==
  /\ Building
  /\ \E a \in SetIsTaskActions :
       /\ a.type = "SET_IS_TASK"
       /\ Apply(a)

ApplyToggleStyle ==
  /\ Building
  /\ \E a \in ToggleStyleActions :
       /\ a.type = "TOGGLE_STYLE"
       /\ Apply(a)

NextCall ==
  \/ BuildCall
  \/ ApplyAddItem
  \/ ApplyUpdateText
  \/ ApplyDelete
  \/ ApplyMergeUp
  \/ ApplyIndent
  \/ ApplyOutdent
  \/ ApplyToggleCollapse
  \/ ApplyChangeFontSize
  \/ ApplySetIsTask
  \/ ApplyToggleStyle

\* One call of the reducer other than MOVE_ITEMS, with any operands (the id of
\* a new item being fresh), on any well-formed store.
SpecCall == InitBuild /\ [][NextCall]_vars

NextAny ==
  \/ BuildStructure
  \/ ApplyAddItem
  \/ ApplyUpdateText
  \/ ApplyDelete
  \/ ApplyMergeUp
  \/ ApplyIndent
  \/ ApplyOutdent
  \/ ApplyToggleCollapse
  \/ ApplyChangeFontSize
  \/ ApplyMoveItems

\* One call of the reducer, MOVE_ITEMS included, with any operands, on any
\* well-formed store built without text edits.
SpecAny == InitBuild /\ [][NextAny]_vars

\* ================================================================ claims
\* ---------------------------------------------------------------- one list
\* The visible list of a built store is computed from any rootId (App.tsx
\* passes the id of the zoomed item).
ListVisible ==
  /\ Building
  /\ \E rootId \in Ids :
       /\ view' = [rootId |-> rootId, list |-> getVisibleFlatList(state, rootId, <<>>)]
       /\ phase' = "listed"
       /\ UNCHANGED <<state, prev, act, outcome, same, steps, used, edits,
                      past, future, lastAction, before, burst, run, txt, hook>>

NextView == BuildStructure \/ ListVisible

\* One getVisibleFlatList call, from any id, on any well-formed store.
SpecView == InitBuild /\ [][NextView]_vars

\* ---------------------------------------------------------------- hook
\* The hook's history state starts from the default store with empty stacks;
\* each callback of the hook dispatches one action to historyReducer.
MayDispatch ==
  /\ phase = "history"
  /\ outcome = "ok"
  /\ steps < MaxSteps

\* the run of UPDATE_TEXT actions on one existing item after this dispatch: it
\* goes on when the action before was one of the run, it starts when
\* lastAction is not an UPDATE_TEXT of the item, and there is none otherwise
burstAfter(a) ==
  IF a.type = "UPDATE_TEXT" /\ Has(state, a.id)
  THEN IF burst.k >= 1 /\ burst.id = a.id
       THEN [burst EXCEPT !.k = @ + 1, !.text = a.text]
       ELSE IF ~(lastAction.type = "UPDATE_TEXT" /\ lastAction.id = a.id)
       THEN [id |-> a.id, base |-> state, past |-> past, text |-> a.text, k |-> 1]
       ELSE NoBurst
  ELSE NoBurst

\* The operands of the dispatched actions are ids of HookIds (one of them is
\* not a key at start), and one item is dragged at a time.
HookIds == {INITIAL_ROOT_ID, firstChildId, "b"}

HookOperands(a) ==
  /\ a.parentId \in HookIds \cup {Null}
  /\ a.otherId \in HookIds \cup {Null}
  /\ a.type # "ADD_ITEM" => a.id \in HookIds \cup {Null}
  /\ Len(a.dragIds) <= 1
  /\ Range(a.dragIds) \subseteq HookIds

\* what is kept of a dispatched action: its type and its id, and the store
\* of a LOAD_STATE
typeAndId(a) ==
  IF a.type = "LOAD_STATE" THEN a
  ELSE [NoAction EXCEPT !.type = a.type, !.id = a.id]

\* `same` tells whether the reducer returned present itself and, for the
\* actions that do not reach the reducer, whether historyReducer returned the
\* history state itself
dispatch(a) ==
  /\ MayDispatch
  /\ \E r \in {historyReducer(HistoryState(past, state, future, lastAction), a)} :
     \E returned \in {IF a.type \in {"UNDO", "REDO", "LOAD_STATE"} THEN r.tag
                      ELSE reducer(state, a).tag} :
       /\ state' = r.h.present
       /\ past' = r.h.past
       /\ future' = r.h.future
       /\ lastAction' = r.h.lastAction
       /\ outcome' = IF r.tag \in {"same", "new"} THEN "ok" ELSE r.tag
       /\ prev' = state
       /\ act' = typeAndId(a)
       /\ same' = (returned = "same")
       /\ steps' = steps + 1
       /\ used' = used \cup DOMAIN r.h.present.items
       /\ before' = [past |-> past, future |-> future, lastAction |-> lastAction,
                      act |-> act]
       /\ burst' = burstAfter(a)
       /\ run' = IF a.type \notin {"UNDO", "REDO", "LOAD_STATE"} /\ returned = "new"
                 THEN Append(run, [store |-> state,
                                   merged |-> mergesText(HistoryState(past, state, future, lastAction), a)])
                 ELSE <<>>
       /\ UNCHANGED <<edits, phase, view, txt, hook>>

addItem ==
  /\ MayDispatch
  /\ \E a \in AddItemActions :
       /\ a.type = "ADD_ITEM"
       /\ HookOperands(a)
       /\ a.id = generateId
       /\ dispatch(a)

updateText ==
  /\ MayDispatch
  /\ \E a \in UpdateTextActions :
       /\ a.type = "UPDATE_TEXT"
       /\ HookOperands(a)
       /\ dispatch(a)

deleteItem ==
  /\ MayDispatch
  /\ \E a \in DeleteActions :
       /\ a.type = "DELETE"
       /\ HookOperands(a)
       /\ dispatch(a)

mergeUp ==
  /\ MayDispatch
  /\ \E a \in MergeUpActions :
       /\ a.type = "MERGE_UP"
       /\ HookOperands(a)
       /\ dispatch(a)

indent ==
  /\ MayDispatch
  /\ \E a \in IndentActions :
       /\ a.type = "INDENT"
       /\ HookOperands(a)
       /\ dispatch(a)

outdent ==
  /\ MayDispatch
  /\ \E a \in OutdentActions :
       /\ a.type = "OUTDENT"
       /\ HookOperands(a)
       /\ dispatch(a)

toggleCollapse ==
  /\ MayDispatch
  /\ \E a \in ToggleCollapseActions :
       /\ a.type = "TOGGLE_COLLAPSE"
       /\ HookOperands(a)
       /\ dispatch(a)

moveItems ==
  /\ MayDispatch
  /\ \E a \in MoveItemsActions :
       /\ a.type = "MOVE_ITEMS"
       /\ HookOperands(a)
       /\ dispatch(a)

changeFontSize ==
  /\ MayDispatch
  /\ \E a \in ChangeFontSizeActions :
       /\ a.type = "CHANGE_FONT_SIZE"
       /\ HookOperands(a)
       /\ dispatch(a)

undo ==
  /\ MayDispatch
  /\ dispatch(ActUndo)

redo ==
  /\ MayDispatch
  /\ dispatch(ActRedo)

\* the stores the load effect may hand over: the default store, or a stored
\* document (here the default one with the text of its item edited)
LoadedStates ==
  {getDefaultState,
   [getDefaultState EXCEPT !.items[firstChildId].text = <<"x">>]}

loadState ==
  /\ MayDispatch
  /\ \E st \in LoadedStates :
       dispatch(ActLoadState(st))

InitHistory ==
  /\ state = getDefaultState
  /\ prev = getDefaultState
  /\ act = NoAction
  /\ outcome = "ok"
  /\ same = FALSE
  /\ steps = 0
  /\ used = DOMAIN getDefaultState.items
  /\ edits = 0
  /\ phase = "history"
  /\ HistoryInit

NextHistory ==
  \/ addItem
  \/ updateText
  \/ deleteItem
  \/ mergeUp
  \/ indent
  \/ outdent
  \/ toggleCollapse
  \/ moveItems
  \/ changeFontSize
  \/ undo
  \/ redo
  \/ loadState

\* The history manager under every sequence of at most MaxSteps dispatches.
SpecHistory == InitHistory /\ [][NextHistory]_vars

\* ---------------------------------------------------------------- insert, merge
\* On a built store a new item is added with a fresh id, after an item or as
\* first child; then it is merged into that item or that parent (Backspace in
\* the empty new item).
InsertFresh ==
  /\ Building
  /\ \E a \in AddItemActions :
       /\ a.type = "ADD_ITEM"
       /\ a.id = generateId
       /\ a.id # Null
       /\ \E r \in {reducer(state, a)} :
            /\ r.tag = "new"
            /\ phase' = "inserted"
            /\ prev' = state
            /\ act' = a
            /\ state' = r.st
            /\ used' = used \cup DOMAIN r.st.items
            /\ UNCHANGED <<outcome, same, steps, edits,
                           past, future, lastAction, before, burst, run, view, txt, hook>>

\* the item the new item is merged into: afterId, or the parent when the new
\* item is the first child
mergeTarget(a) == IF a.otherId # Null THEN a.otherId ELSE a.parentId

MergeInserted ==
  /\ phase = "inserted"
  /\ \E r \in {reducer(state, ActMergeUp(act.id, act.parentId, mergeTarget(act)))} :
       /\ phase' = "merged"
       /\ state' = r.st
       /\ outcome' = IF r.tag \in {"same", "new"} THEN "ok" ELSE r.tag
       /\ same' = (r.tag = "same")
       /\ UNCHANGED <<prev, act, steps, used, edits,
                      past, future, lastAction, before, burst, run, view, txt, hook>>

NextRoundTrip == BuildCall \/ InsertFresh \/ MergeInserted

\* ADD_ITEM of a fresh id then MERGE_UP of it, on any well-formed store.
SpecRoundTrip == InitBuild /\ [][NextRoundTrip]_vars

\* ---------------------------------------------------------------- ids of new items
\* generateId is Math.random().toString(36).substr(2, 9): nothing keeps it from
\* returning a string it returned before, and ADD_ITEM takes the id it is
\* handed.  The new id is any id but the root's.
RandomIds == Ids \ {INITIAL_ROOT_ID}

\* one dispatched action, recorded with the store it was given
DispatchRecorded(a) ==
  /\ CanDispatch
  /\ \E r \in {reducer(state, a)} :
       /\ state' = r.st
       /\ outcome' = IF r.tag \in {"same", "new"} THEN "ok" ELSE r.tag
       /\ steps' = steps + 1
       /\ used' = used \cup DOMAIN r.st.items
       /\ prev' = state
       /\ act' = a
       /\ same' = (r.tag = "same")
       /\ UNCHANGED <<edits, phase, past, future, lastAction, before, burst, run, view, txt, hook>>

AddItemRandomId ==
  /\ CanDispatch
  /\ \E a \in AddItemActions :
       /\ a.type = "ADD_ITEM"
       /\ a.id \in RandomIds
       /\ DispatchRecorded(a)

DeleteRecorded ==
  /\ CanDispatch
  /\ \E a \in DeleteActions :
       /\ a.type = "DELETE"
       /\ DispatchRecorded(a)

MergeUpRecorded ==
  /\ CanDispatch
  /\ \E a \in MergeUpActions :
       /\ a.type = "MERGE_UP"
       /\ DispatchRecorded(a)

NextIds == AddItemRandomId \/ DeleteRecorded \/ MergeUpRecorded

\* The actions that add and remove keys, from the default store, the id of a
\* new item being whatever generateId returns.
SpecIds == Init /\ [][NextIds]_vars

\* ---------------------------------------------------------------- import of a text
Lines == UNION {[1..n -> LineChars] : n \in 0..MaxLineLen}

Writing == phase = "text"

WriteLine ==
  /\ Writing
  /\ Len(txt) < MaxLines
  /\ \E line \in Lines :
       /\ txt' = Append(txt, line)
       /\ UNCHANGED <<state, prev, act, outcome, same, steps, used, edits, phase,
                      past, future, lastAction, before, burst, run, view, hook>>

Import ==
  /\ Writing
  /\ state' = parseImportText(txt)
  /\ phase' = "imported"
  /\ UNCHANGED <<prev, act, outcome, same, steps, used, edits,
                 past, future, lastAction, before, burst, run, view, txt, hook>>

InitImport ==
  /\ state = getDefaultState
  /\ prev = getDefaultState
  /\ act = NoAction
  /\ outcome = "ok"
  /\ same = FALSE
  /\ steps = 0
  /\ used = DOMAIN getDefaultState.items
  /\ edits = 0
  /\ phase = "text"
  /\ HistoryInit

NextImport == WriteLine \/ Import

\* parseImportText on every text of at most MaxLines lines.
SpecImport == InitImport /\ [][NextImport]_vars

\* ---------------------------------------------------------------- export of a store
RichTexts == {<<"<b>", "x", "</b>">>}

BuildRichText ==
  /\ Building
  /\ \E id \in Ids, html \in RichTexts :
       Build(ActUpdateText(id, html))

ActExport(rootId) == [NoAction EXCEPT !.type = "EXPORT", !.id = rootId]

\* handleExport: exportToText(items, currentRootId)
Export ==
  /\ Building
  /\ \E currentRootId \in DOMAIN state.items :
       /\ txt' = exportToText(state, currentRootId)
       /\ act' = ActExport(currentRootId)
       /\ phase' = "exported"
       /\ UNCHANGED <<state, prev, outcome, same, steps, used, edits,
                      past, future, lastAction, before, burst, run, view, hook>>

NextExport == BuildCall \/ BuildRichText \/ Export

\* exportToText on every well-formed store, from every item as the root.
SpecExport == InitBuild /\ [][NextExport]_vars

\* ---------------------------------------------------------------- load and save
\* The document a user may have stored before the hook is mounted.
StoredState == [getDefaultState EXCEPT !.items[firstChildId].text = <<"x">>]
StoredDocument == [exists |-> TRUE, doc |-> StoredState, writer |-> "before"]
\* localStorage may also hold a string that JSON.parse rejects
Garbage == [exists |-> TRUE, doc |-> getDefaultState, writer |-> "garbage"]

\* JSON.stringify(state), and the document setDoc stores, written by a save
Saved(st) == [exists |-> TRUE, doc |-> st, writer |-> "save"]

\* the finally block of the Firebase load
finally(h) == [h EXCEPT !.loading = FALSE, !.delay = TRUE, !.load = "done"]

\* The load effect without db: it runs to its end while the hook is mounted;
\* the save effect of the first render returns at once (loading is true).
MountLocal ==
  /\ phase = "mount"
  /\ ~hook.db
  /\ state' = IF hook.local.exists /\ hook.local.writer # "garbage"
              THEN hook.local.doc ELSE getDefaultState
  /\ hook' = [hook EXCEPT !.loading = FALSE, !.isInitialLoad = FALSE,
                          !.load = "done", !.loaded = TRUE,
                          !.deps = [state |-> state, loading |-> TRUE]]
  /\ phase' = "mounted"
  /\ UNCHANGED <<prev, act, outcome, same, steps, used, edits,
                 past, future, lastAction, before, burst, run, view, txt>>

\* The load effect with db: up to await getDoc(docRef).
MountFirebase ==
  /\ phase = "mount"
  /\ hook.db
  /\ hook' = [hook EXCEPT !.load = "getDoc",
                          !.deps = [state |-> state, loading |-> TRUE]]
  /\ phase' = "mounted"
  /\ UNCHANGED <<state, prev, act, outcome, same, steps, used, edits,
                 past, future, lastAction, before, burst, run, view, txt>>

\* docSnap.exists(): LOAD_STATE with the data, then finally
GetDocExists ==
  /\ hook.load = "getDoc"
  /\ hook.remote.exists
  /\ state' = hook.remote.doc
  /\ hook' = [finally(hook) EXCEPT !.loaded = TRUE]
  /\ UNCHANGED <<prev, act, outcome, same, steps, used, edits, phase,
                 past, future, lastAction, before, burst, run, view, txt>>

\* no document: up to await setDoc(docRef, defaultState)
GetDocMissing ==
  /\ hook.load = "getDoc"
  /\ ~hook.remote.exists
  /\ hook' = [hook EXCEPT !.load = "setDoc"]
  /\ UNCHANGED <<state, prev, act, outcome, same, steps, used, edits, phase,
                 past, future, lastAction, before, burst, run, view, txt>>

\* setDoc has stored the default state: LOAD_STATE with it, then finally
SetDocDefault ==
  /\ hook.load = "setDoc"
  /\ state' = getDefaultState
  /\ hook' = [finally(hook) EXCEPT
                !.remote = [exists |-> TRUE, doc |-> getDefaultState, writer |-> "load"],
                !.loaded = TRUE]
  /\ UNCHANGED <<prev, act, outcome, same, steps, used, edits, phase,
                 past, future, lastAction, before, burst, run, view, txt>>

\* getDoc or setDoc rejects: catch logs the error, then finally
LoadError ==
  /\ hook.load \in {"getDoc", "setDoc"}
  /\ hook' = finally(hook)
  /\ UNCHANGED <<state, prev, act, outcome, same, steps, used, edits, phase,
                 past, future, lastAction, before, burst, run, view, txt>>

\* React runs the effects of a render before a timer or an event of the user
\* is served: these wait until the save effect has seen the last render.
Flushed ==
  /\ phase = "mounted"
  /\ hook.deps = [state |-> state, loading |-> hook.loading]

\* setTimeout(() => { isInitialLoad.current = false }, 500)
InitialLoadDelay ==
  /\ Flushed
  /\ hook.delay
  /\ hook' = [hook EXCEPT !.delay = FALSE, !.isInitialLoad = FALSE]
  /\ UNCHANGED <<state, prev, act, outcome, same, steps, used, edits, phase,
                 past, future, lastAction, before, burst, run, view, txt>>

\* The save effect after a render in which state or loading has changed: the
\* clean-up of the effect before clears its timeout, then the effect runs.
SaveEffect ==
  /\ phase = "mounted"
  /\ hook.deps # [state |-> state, loading |-> hook.loading]
  /\ hook' = [hook EXCEPT
                !.deps = [state |-> state, loading |-> hook.loading],
                !.saveStatus = IF hook.loading \/ hook.isInitialLoad THEN @ ELSE "saving",
                !.timeoutId = IF hook.loading \/ hook.isInitialLoad THEN NoTimeout
                              ELSE [set |-> TRUE, state |-> state]]
  /\ UNCHANGED <<state, prev, act, outcome, same, steps, used, edits, phase,
                 past, future, lastAction, before, burst, run, view, txt>>

\* save(), 1000 ms after the effect: localStorage.setItem, then setDoc when
\* db is configured, which resolves or rejects
SaveTimeout ==
  /\ Flushed
  /\ hook.timeoutId.set
  /\ \E resolved \in BOOLEAN :
       /\ ~hook.db => resolved
       /\ hook' = [hook EXCEPT
                     !.timeoutId = NoTimeout,
                     !.local = Saved(hook.timeoutId.state),
                     !.remote = IF hook.db /\ resolved
                                THEN Saved(hook.timeoutId.state) ELSE @,
                     !.saveStatus = IF resolved THEN "saved" ELSE "error"]
  /\ UNCHANGED <<state, prev, act, outcome, same, steps, used, edits, phase,
                 past, future, lastAction, before, burst, run, view, txt>>

\* The user edits the outline (App.tsx shows no outline while loading).
EditActions == UpdateTextActions \cup ToggleCollapseActions

Edit ==
  /\ Flushed
  /\ ~hook.loading
  /\ steps < MaxSteps
  /\ \E a \in EditActions :
       \E r \in {reducer(state, a)} :
         /\ r.tag = "new"
         /\ state' = r.st
         /\ steps' = steps + 1
         /\ UNCHANGED <<prev, act, outcome, same, used, edits, phase,
                        past, future, lastAction, before, burst, run, view, txt, hook>>

InitPersist ==
  /\ state = getDefaultState
  /\ prev = getDefaultState
  /\ act = NoAction
  /\ outcome = "ok"
  /\ same = FALSE
  /\ steps = 0
  /\ used = DOMAIN getDefaultState.items
  /\ edits = 0
  /\ phase = "mount"
  /\ past = <<>>
  /\ future = <<>>
  /\ lastAction = NoAction
  /\ before = NoBefore
  /\ burst = NoBurst
  /\ run = <<>>
  /\ view = NoView
  /\ txt = <<>>
  /\ \E db \in BOOLEAN :
       \E remote \in {NoDocument, StoredDocument} :
         \E local \in {NoDocument, StoredDocument, Garbage} :
           hook = [NoHook EXCEPT !.db = db, !.remote = remote, !.local = local]

NextPersist ==
  \/ MountLocal
  \/ MountFirebase
  \/ GetDocExists
  \/ GetDocMissing
  \/ SetDocDefault
  \/ LoadError
  \/ InitialLoadDelay
  \/ SaveEffect
  \/ SaveTimeout
  \/ Edit

\* The hook from its mount: the load, the user's edits and the debounced saves.
SpecPersist == InitPersist /\ [][NextPersist]_vars

\* ---------------------------------------------------------------- store invariants (Spec)

\* C1 (acyclicity): after any sequence of actions from the default store, no
\* item is reachable from itself by following one or more children links.
C1_Acyclic == \A k \in DOMAIN state.items : k \notin Descendants(state, k)

\* C2 (single parent): after any sequence of actions, every key of items
\* other than rootId is in the children list of exactly one item.
C2_SingleParent ==
  \A k \in DOMAIN state.items \ {state.rootId} : Cardinality(ParentsOf(state, k)) = 1

\* C3 (referential integrity): after every action, every id in any item's
\* children list is a key of items.
C3_NoDanglingChild ==
  \A k \in DOMAIN state.items : Kids(state, k) \subseteq DOMAIN state.items

\* C4 (root protection): after any sequence of actions, rootId is a key of
\* items and is in no item's children list.
C4_RootProtected ==
  /\ Has(state, state.rootId)
  /\ \A k \in DOMAIN state.items : state.rootId \notin Kids(state, k)

\* C5 (forest rooted at root): after any sequence of actions, every key of
\* items is reachable from rootId by following children links.
C5_AllReachable ==
  DOMAIN state.items \subseteq {state.rootId} \cup Descendants(state, state.rootId)

\* ---------------------------------------------------------------- MOVE_ITEMS (SpecMove)
\* a MOVE_ITEMS call has been recorded: prev is the store it was given, act
\* its operands, state / outcome / same its result
MoveApplied == phase = "applied" /\ act.type = "MOVE_ITEMS"

RemoveAll(s, S) == SelectSeq(s, LAMBDA x : x \notin S)

\* The topmost subset of dragIds as section 4.2 step 1 defines it: the ids of
\* dragIds, in order, that are not a descendant of another id of dragIds.
Topmost(st, dragIds) ==
  SelectSeq(dragIds,
            LAMBDA id : ~\E o \in Range(dragIds) : o # id /\ id \in Descendants(st, o))

\* C6 (cycle guard): if targetId equals a reduced drag id or is a descendant
\* of a reduced drag id, MOVE_ITEMS returns the input store unchanged.
C6_CycleGuard ==
  MoveApplied =>
    \A d \in Range(Topmost(prev, act.dragIds)) :
      (act.otherId = d \/ act.otherId \in Descendants(prev, d))
        => (outcome = "ok" /\ same /\ state = prev)

\* C7 (topmost reduction): the ids MOVE_ITEMS relocates (topLevelDragIds) are
\* exactly the ids of dragIds that have no proper ancestor in dragIds.
C7_TopmostReduction ==
  MoveApplied => topLevelDragIds(prev, act.dragIds) = Topmost(prev, act.dragIds)

\* d sits where a move to `position` of target t puts it
PlacedAt(st, d, t, position) ==
  IF position = "inside"
  THEN /\ Has(st, t)
       /\ Len(st.items[t].children) > 0
       /\ st.items[t].children[Len(st.items[t].children)] = d
  ELSE \E p \in ParentsOf(st, t) :
         \E i \in DOMAIN st.items[p].children :
           /\ st.items[p].children[i] = t
           /\ LET j == IF position = "before" THEN i - 1 ELSE i + 1
              IN j \in DOMAIN st.items[p].children /\ st.items[p].children[j] = d

\* C8 (a legal move is not rejected): MOVE_ITEMS with the single drag id d and
\* a target t that is neither d nor a descendant of d (t inside, or t with a
\* parent for before / after) relocates d instead of returning the input store.
C8_LegalMoveAccepted ==
  (MoveApplied /\ Len(act.dragIds) = 1) =>
    LET d == act.dragIds[1]
        t == act.otherId
    IN (/\ Has(prev, d) /\ Has(prev, t)
        /\ t # d /\ t \notin Descendants(prev, d)
        /\ (act.position = "inside" \/ ParentsOf(prev, t) # {}))
       => (outcome = "ok" /\ ~same /\ PlacedAt(state, d, t, act.position))

\* What C9 says of a MOVE_ITEMS inside call that was not rejected, with `top`
\* the reduced ids: each is gone from its former parent, they are appended in
\* order at the end of the target's children, and the target is expanded.
InsideMoved(top) ==
  LET t == act.otherId
  IN /\ \A d \in Range(top) : \A p \in ParentsOf(prev, d) \ {t} : d \notin Kids(state, p)
     /\ Has(prev, t) /\ Has(state, t)
     /\ state.items[t].children = RemoveAll(prev.items[t].children, Range(top)) \o top
     /\ state.items[t].collapsed = FALSE

\* C9 (move inside): when MOVE_ITEMS with position inside is not rejected,
\* every reduced id (topLevelDragIds, the list the reducer reduces dragIds to)
\* is removed from its former parent's children, the reduced ids are appended
\* at the end of targetId's children in dragIds order, and targetId.collapsed
\* is false; from root->[a,b], MOVE_ITEMS([b], a, inside) gives
\* root.children = [a], a.children = [b].
C9_MoveInside ==
  (MoveApplied /\ act.position = "inside" /\ outcome = "ok" /\ ~same)
    => /\ InsideMoved(topLevelDragIds(prev, act.dragIds))
       /\ (/\ prev.items[prev.rootId].children = <<"a", "b">>
           /\ prev.items["a"].children = <<>>
           /\ act.dragIds = <<"b">> /\ act.otherId = "a")
          => (/\ state.items[state.rootId].children = <<"a">>
              /\ state.items["a"].children = <<"b">>)

\* C9's case: an id is moved from under the root to the end of the children
\* of a collapsed target that has a child of its own
C9_Witness ==
  /\ MoveApplied /\ act.position = "inside" /\ outcome = "ok" /\ ~same
  /\ Len(act.dragIds) = 1
  /\ act.dragIds[1] \in Range(prev.items[prev.rootId].children)
  /\ prev.items[act.otherId].collapsed
  /\ Len(prev.items[act.otherId].children) = 1
  /\ state.items[act.otherId].children =
       prev.items[act.otherId].children \o act.dragIds
  /\ ~state.items[act.otherId].collapsed
  /\ act.dragIds[1] \notin Range(state.items[state.rootId].children)

\* C9 read with the topmost subset of section 4.2 step 1 as the reduced ids: it
\* differs from C9_MoveInside only where dragIds holds an id and one of its
\* descendants (C7)
C9_MoveInsideOfTopmost ==
  (MoveApplied /\ act.position = "inside" /\ outcome = "ok" /\ ~same)
    => InsideMoved(Topmost(prev, act.dragIds))

\* What C10 says of a MOVE_ITEMS before / after call that was not rejected, the
\* target having a parent, with `top` the reduced ids: the parent's children
\* are its former children without the reduced ids, with the reduced ids
\* spliced in, in order, just before (just after) the target.
BesideMoved(top) ==
  LET t == act.otherId
      p == CHOOSE q \in ParentsOf(prev, t) : TRUE
      rest == RemoveAll(prev.items[p].children, Range(top))
      i == IndexOf(rest, t)
  IN /\ Has(state, p)
     /\ state.items[p].children =
          Splice(rest, IF act.position = "before" THEN i ELSE i + 1, 0, top)

\* C10 (move before / after): when MOVE_ITEMS with position before (after) is
\* not rejected and the target has a parent p, the reduced ids
\* (topLevelDragIds) form a block in p.children immediately before (after)
\* targetId, in dragIds order, and the order of the other children of p is
\* unchanged, also when moved ids were siblings preceding the target.
C10_MoveBeside ==
  (/\ MoveApplied /\ act.position \in {"before", "after"}
   /\ outcome = "ok" /\ ~same /\ ParentsOf(prev, act.otherId) # {})
    => BesideMoved(topLevelDragIds(prev, act.dragIds))

\* C10's case: two siblings that precede the target are moved to just after it
C10_Witness ==
  /\ MoveApplied /\ act.position = "after" /\ outcome = "ok" /\ ~same
  /\ Len(topLevelDragIds(prev, act.dragIds)) = 2
  /\ \E p \in ParentsOf(prev, act.otherId) :
       /\ prev.items[p].children = <<act.dragIds[2], act.dragIds[1], act.otherId>>
       /\ state.items[p].children = <<act.otherId, act.dragIds[1], act.dragIds[2]>>

\* C10 read with the topmost subset of section 4.2 step 1 as the reduced ids
\* (see C9_MoveInsideOfTopmost)
C10_MoveBesideOfTopmost ==
  (/\ MoveApplied /\ act.position \in {"before", "after"}
   /\ outcome = "ok" /\ ~same /\ ParentsOf(prev, act.otherId) # {})
    => BesideMoved(Topmost(prev, act.dragIds))

\* C11 (parentless target): MOVE_ITEMS with position before or after and a
\* target that no children list holds (the root, or an id in no list) is a
\* no-op: the store returned is the store given, no dragged id is unlinked.
C11_ParentlessTargetNoOp ==
  (/\ MoveApplied /\ act.position \in {"before", "after"}
   /\ ParentsOf(prev, act.otherId) = {})
    => (outcome = "ok" /\ same /\ state = prev)

\* C12 (target among the dragged): MOVE_ITEMS whose targetId is a member of
\* dragIds returns the store it was given, in every well-formed store.
C12_TargetInDragIds ==
  (MoveApplied /\ act.otherId \in Range(act.dragIds))
    => (outcome = "ok" /\ same /\ state = prev)

\* C12's case: the target is a dragged id that the reduction drops (one of its
\* descendants is dragged too), and the call returns the store it was given
C12_Witness ==
  /\ MoveApplied /\ outcome = "ok" /\ same
  /\ Has(prev, act.otherId)
  /\ act.otherId \in Range(act.dragIds)
  /\ act.otherId \notin Range(topLevelDragIds(prev, act.dragIds))

\* C13 (termination): in every store reachable from the default store, every
\* call of the reducer returns after finitely many steps.
C13_Terminates == outcome # "hang"

\* ---------------------------------------------------------------- one call
\* the recorded call was of this action type
Applied(type) == phase = "applied" /\ act.type = type

\* the recorded call returned the very store it was given
ReturnedSame == outcome = "ok" /\ same /\ state = prev

\* C14 (missing operands): ADD_ITEM with parentId absent, UPDATE_TEXT with id
\* absent, DELETE with parentId absent, MERGE_UP with id, previousItemId or
\* parentId absent, and CHANGE_FONT_SIZE with id absent each return the very
\* store they were given.
C14_MissingOperandNoOp ==
  /\ (Applied("ADD_ITEM") /\ ~Has(prev, act.parentId)) => ReturnedSame
  /\ (Applied("UPDATE_TEXT") /\ ~Has(prev, act.id)) => ReturnedSame
  /\ (Applied("DELETE") /\ ~Has(prev, act.parentId)) => ReturnedSame
  /\ (/\ Applied("MERGE_UP")
      /\ (~Has(prev, act.id) \/ ~Has(prev, act.otherId) \/ ~Has(prev, act.parentId)))
       => ReturnedSame
  /\ (Applied("CHANGE_FONT_SIZE") /\ ~Has(prev, act.id)) => ReturnedSame

\* C14's case: MERGE_UP of a child of parentId whose previousItemId alone is
\* not a key
C14_Witness ==
  /\ Applied("MERGE_UP") /\ ReturnedSame
  /\ Has(prev, act.parentId) /\ Has(prev, act.id)
  /\ act.id \in Range(prev.items[act.parentId].children)
  /\ ~Has(prev, act.otherId)

\* C15 (toggle collapse): TOGGLE_COLLAPSE with an id that is not a key returns
\* the store it was given and raises no error; with a key it flips that
\* item's collapsed flag and changes nothing else.
C15_ToggleCollapse ==
  Applied("TOGGLE_COLLAPSE") =>
    IF Has(prev, act.id)
    THEN /\ outcome = "ok"
         /\ state.items = [prev.items EXCEPT ![act.id].collapsed = ~prev.items[act.id].collapsed]
    ELSE ReturnedSame

\* number of entries of s equal to x
Count(s, x) == Cardinality({i \in DOMAIN s : s[i] = x})

\* C16 (insert): ADD_ITEM with an existing parent and a fresh newId adds newId
\* to items with empty text and no children and puts it into parent.children
\* exactly once: right after afterId when afterId is in parent.children, at
\* the end when afterId is given but not there, at the front when there is no
\* afterId; the parent's other children keep their order.
C16_Insert ==
  (Applied("ADD_ITEM") /\ Has(prev, act.parentId)) =>
    LET old == prev.items[act.parentId].children
        new == state.items[act.parentId].children
        at  == IndexOf(new, act.id) + 1
    IN /\ outcome = "ok" /\ ~same
       /\ Has(state, act.id)
       /\ state.items[act.id].text = <<>>
       /\ state.items[act.id].children = <<>>
       /\ Count(new, act.id) = 1
       /\ RemoveAll(new, {act.id}) = old
       /\ IF act.otherId = Null THEN at = 1
          ELSE IF act.otherId \in Range(old) THEN at > 1 /\ new[at - 1] = act.otherId
          ELSE at = Len(new)

\* C16's case: the new id is inserted after a child that is not the last one
C16_Witness ==
  /\ Applied("ADD_ITEM") /\ outcome = "ok" /\ Has(prev, act.parentId)
  /\ Len(prev.items[act.parentId].children) = 2
  /\ act.otherId = prev.items[act.parentId].children[1]
  /\ state.items[act.parentId].children =
       <<act.otherId, act.id, prev.items[act.parentId].children[2]>>

\* C17 (delete): DELETE with parentId present removes id from
\* parentId.children and removes id and every descendant of id from items;
\* every other key stays, with its text and children unchanged apart from
\* parentId.children losing id.
C17_Delete ==
  (Applied("DELETE") /\ Has(prev, act.parentId)) =>
    LET gone == (Descendants(prev, act.id) \cup {act.id}) \cap DOMAIN prev.items
    IN /\ outcome = "ok"
       /\ DOMAIN state.items = DOMAIN prev.items \ gone
       /\ \A k \in DOMAIN state.items :
            /\ state.items[k].text = prev.items[k].text
            /\ state.items[k].children =
                 IF k = act.parentId THEN Without(prev.items[k].children, act.id)
                 ELSE prev.items[k].children

\* C17's case: a child with a child of its own is deleted from under its
\* parent, which keeps another child
C17_Witness ==
  /\ Applied("DELETE") /\ outcome = "ok" /\ Has(prev, act.parentId) /\ Has(prev, act.id)
  /\ act.id \in Range(prev.items[act.parentId].children)
  /\ Len(prev.items[act.parentId].children) = 2
  /\ Len(prev.items[act.id].children) = 1
  /\ Cardinality(DOMAIN state.items) = Cardinality(DOMAIN prev.items) - 2
  /\ Len(state.items[act.parentId].children) = 1

\* C18 (merge into a non-parent predecessor): MERGE_UP with id, previousItemId
\* and parentId present, previousItemId other than parentId and than id:
\* previousItemId's text is its old text followed by id's text, its children
\* are its old children followed by id's children, its collapsed is false, id
\* is gone from parentId.children and from items, and every former child of
\* id has exactly one parent.
C18_MergeUpSibling ==
  (/\ Applied("MERGE_UP")
   /\ Has(prev, act.id) /\ Has(prev, act.otherId) /\ Has(prev, act.parentId)
   /\ act.otherId # act.parentId /\ act.otherId # act.id) =>
    /\ outcome = "ok"
    /\ Has(state, act.otherId)
    /\ state.items[act.otherId].text =
         prev.items[act.otherId].text \o prev.items[act.id].text
    /\ state.items[act.otherId].children =
         prev.items[act.otherId].children \o prev.items[act.id].children
    /\ ~state.items[act.otherId].collapsed
    /\ ~Has(state, act.id)
    /\ Has(state, act.parentId) => act.id \notin Range(state.items[act.parentId].children)
    /\ \A ch \in Range(prev.items[act.id].children) :
         /\ Cardinality(ParentsOf(state, ch)) = 1
         /\ \A k \in ParentsOf(state, ch) : Count(state.items[k].children, ch) = 1

\* C18's case: a child of parentId that has text and a child is merged into
\* another item that has text and a child of its own
C18_Witness ==
  /\ Applied("MERGE_UP") /\ outcome = "ok" /\ ~same
  /\ Has(prev, act.id) /\ Has(prev, act.otherId) /\ Has(prev, act.parentId)
  /\ act.otherId # act.parentId /\ act.otherId # act.id
  /\ act.id \in Range(prev.items[act.parentId].children)
  /\ Len(prev.items[act.id].children) = 1
  /\ Len(prev.items[act.otherId].children) = 1
  /\ prev.items[act.otherId].text # <<>>
  /\ prev.items[act.id].text # <<>>
  /\ state.items[act.otherId].children =
       prev.items[act.otherId].children \o prev.items[act.id].children
  /\ state.items[act.parentId].children = <<>>

\* C19 (merge into the enclosing parent): MERGE_UP with previousItemId equal to
\* parentId and the operands present: the parent's children are its former
\* list with the one entry id replaced, in place, by id's children; every
\* other entry keeps its place and no other child is removed; the parent's
\* text is its old text followed by id's text.
C19_MergeUpParent ==
  (/\ Applied("MERGE_UP") /\ act.otherId = act.parentId /\ act.id # act.parentId
   /\ Has(prev, act.id) /\ Has(prev, act.parentId)) =>
    LET old == prev.items[act.parentId].children
        at  == IndexOf(old, act.id)
    IN /\ outcome = "ok"
       /\ state.items[act.parentId].text =
            prev.items[act.parentId].text \o prev.items[act.id].text
       /\ Range(old) \ {act.id} \subseteq Range(state.items[act.parentId].children)
       /\ at >= 0 => state.items[act.parentId].children =
                       SubSeq(old, 1, at) \o prev.items[act.id].children
                         \o SubSeq(old, at + 2, Len(old))

\* C20 (indent): INDENT of the child at index i > 0 of parentId.children
\* removes it from there and appends it to the children of the sibling at
\* index i - 1, whose collapsed becomes false; INDENT of the first child, or
\* of an id not in parentId.children, returns the store it was given.
C20_Indent ==
  Applied("INDENT") =>
    LET kids == IF Has(prev, act.parentId) THEN prev.items[act.parentId].children ELSE <<>>
        i == IndexOf(kids, act.id)
    IN IF i > 0
       THEN /\ outcome = "ok"
            /\ state.items[act.parentId].children = Without(kids, act.id)
            /\ state.items[kids[i]].children = Append(prev.items[kids[i]].children, act.id)
            /\ ~state.items[kids[i]].collapsed
       ELSE ReturnedSame

\* C20's case: the second child is indented under a collapsed first child
\* that has a child of its own
C20_Witness ==
  /\ Applied("INDENT") /\ outcome = "ok" /\ ~same
  /\ Has(prev, act.parentId)
  /\ Len(prev.items[act.parentId].children) = 2
  /\ act.id = prev.items[act.parentId].children[2]
  /\ prev.items[prev.items[act.parentId].children[1]].collapsed
  /\ Len(prev.items[prev.items[act.parentId].children[1]].children) = 1
  /\ Len(state.items[prev.items[act.parentId].children[1]].children) = 2

\* number of entries equal to id over all children lists
Occurrences(st, id) ==
  Cardinality(UNION {{<<k, i>> : i \in {j \in DOMAIN st.items[k].children :
                                          st.items[k].children[j] = id}} :
                     k \in DOMAIN st.items})

\* C21 (outdent): OUTDENT(id, parentId) when parentId has a parent g removes
\* id from parentId.children and inserts it into g.children right after
\* parentId, so that id then occurs in exactly one children list; when
\* parentId has no parent the store given is returned.
C21_Outdent ==
  Applied("OUTDENT") =>
    IF ParentsOf(prev, act.parentId) = {} THEN ReturnedSame
    ELSE \A g \in ParentsOf(prev, act.parentId) :
           LET old == prev.items[g].children
               at == IndexOf(old, act.parentId) + 1
           IN /\ outcome = "ok"
              /\ act.id \notin Range(state.items[act.parentId].children)
              /\ state.items[g].children =
                   SubSeq(old, 1, at) \o <<act.id>> \o SubSeq(old, at + 1, Len(old))
              /\ Occurrences(state, act.id) = 1

\* the items of the recorded call's result and operand differ at act.id
ItemChanged == Has(state, act.id) /\ state.items[act.id] # prev.items[act.id]

\* C22 (attribute actions): for an id that is a key, CHANGE_FONT_SIZE(id, s)
\* gives a store where the item's fontSize is s, SET_IS_TASK(id, v) one where
\* its isTask is v, and TOGGLE_STYLE(id, style) one where the style flag is
\* changed.
C22_AttributeActions ==
  /\ (Applied("CHANGE_FONT_SIZE") /\ Has(prev, act.id))
       => (outcome = "ok" /\ state.items[act.id].fontSize = act.size)
  /\ (Applied("SET_IS_TASK") /\ Has(prev, act.id))
       => /\ outcome = "ok" /\ Has(state, act.id)
          /\ "isTask" \in DOMAIN state.items[act.id]
          /\ state.items[act.id].isTask = act.isTask
  /\ (Applied("TOGGLE_STYLE") /\ Has(prev, act.id))
       => (outcome = "ok" /\ ItemChanged)

\* C23 (content and display actions): UPDATE_TEXT, TOGGLE_COLLAPSE and
\* CHANGE_FONT_SIZE on a key leave the key set, rootId and every children list
\* unchanged, and change only the named field of the one addressed item.
C23_NoStructuralEffect ==
  (/\ phase = "applied" /\ Has(prev, act.id)
   /\ act.type \in {"UPDATE_TEXT", "TOGGLE_COLLAPSE", "CHANGE_FONT_SIZE"}) =>
    /\ outcome = "ok"
    /\ DOMAIN state.items = DOMAIN prev.items
    /\ state.rootId = prev.rootId
    /\ \A k \in DOMAIN prev.items : k # act.id => state.items[k] = prev.items[k]
    /\ state.items[act.id] =
         CASE act.type = "UPDATE_TEXT" -> [prev.items[act.id] EXCEPT !.text = act.text]
           [] act.type = "TOGGLE_COLLAPSE" ->
                [prev.items[act.id] EXCEPT !.collapsed = ~prev.items[act.id].collapsed]
           [] act.type = "CHANGE_FONT_SIZE" -> [prev.items[act.id] EXCEPT !.fontSize = act.size]

\* C23's case: the text of a collapsed item that has a child is replaced
C23_Witness ==
  /\ Applied("UPDATE_TEXT") /\ outcome = "ok" /\ Has(prev, act.id)
  /\ prev.items[act.id].collapsed
  /\ Len(prev.items[act.id].children) > 0
  /\ act.text # prev.items[act.id].text
  /\ state.items[act.id].text = act.text
  /\ state.items[act.id].children = prev.items[act.id].children

\* C24 (keys): INDENT, OUTDENT, MOVE_ITEMS, UPDATE_TEXT, TOGGLE_COLLAPSE and
\* CHANGE_FONT_SIZE never add or remove a key of items; ADD_ITEM adds exactly
\* the key newId; MERGE_UP removes exactly the key id; only DELETE removes a
\* subtree.
C24_KeysFrame ==
  phase = "applied" =>
    LET old == DOMAIN prev.items
        new == DOMAIN state.items
    IN CASE act.type \in {"INDENT", "OUTDENT", "MOVE_ITEMS", "UPDATE_TEXT",
                          "TOGGLE_COLLAPSE", "CHANGE_FONT_SIZE"} -> new = old
         [] act.type = "ADD_ITEM" ->
              new = IF Has(prev, act.parentId) THEN old \cup {act.id} ELSE old
         [] act.type = "MERGE_UP" ->
              new = IF Has(prev, act.id) /\ Has(prev, act.otherId) /\ Has(prev, act.parentId)
                    THEN old \ {act.id} ELSE old
         [] act.type = "DELETE" ->
              new = IF Has(prev, act.parentId)
                    THEN old \ (Descendants(prev, act.id) \cup {act.id}) ELSE old
         [] OTHER -> TRUE

\* C24's case: MERGE_UP of an item that has a child removes the one key, and
\* the child stays a key
C24_Witness ==
  /\ Applied("MERGE_UP") /\ outcome = "ok" /\ ~same
  /\ Len(prev.items[act.id].children) = 1
  /\ act.id \in Range(prev.items[act.parentId].children)
  /\ DOMAIN state.items = DOMAIN prev.items \ {act.id}
  /\ prev.items[act.id].children[1] \in DOMAIN state.items

\* ---------------------------------------------------------------- visible list (SpecView)
\* the pre-order of the items below the ids of kids: each id, followed by the
\* pre-order below its children unless it is collapsed
RECURSIVE PreOrderBelow(_, _)
PreOrderBelow(st, kids) ==
  IF kids = <<>> THEN <<>>
  ELSE LET c == Head(kids)
       IN <<c>>
          \o (IF st.items[c].collapsed THEN <<>>
              ELSE PreOrderBelow(st, st.items[c].children))
          \o PreOrderBelow(st, Tail(kids))

\* the ancestors of d that are proper descendants of r
Between(st, r, d) == {k \in Descendants(st, r) : d \in Descendants(st, k)}

Listed == phase = "listed"

\* C25 (visible list): on a well-formed store the list computed from r is the
\* depth-first pre-order of the proper descendants of r in which the children
\* of a node are listed only if the node is not collapsed, whatever the
\* collapsed flag of r; it holds each id at most once; it holds exactly the
\* descendants of r that have no collapsed ancestor below r, so a collapsed
\* item is listed and its descendants are not.
C25_VisibleFlatList ==
  Listed =>
    LET r == view.rootId
        list == view.list
    IN /\ list = (IF Has(state, r)
                  THEN PreOrderBelow(state, state.items[r].children) ELSE <<>>)
       /\ \A i, j \in 1..Len(list) : list[i] = list[j] => i = j
       /\ Range(list) =
            {d \in Descendants(state, r) :
               \A k \in Between(state, r, d) : ~state.items[k].collapsed}
       /\ \A k \in Range(list) :
            state.items[k].collapsed =>
              Descendants(state, k) \cap Range(list) = {}

\* C25's case: the list holds a collapsed item that has a child, leaves the
\* child out and goes on with the item's next sibling
C25_Witness ==
  /\ Listed
  /\ \E i \in 1..Len(view.list) :
       /\ state.items[view.list[i]].collapsed
       /\ state.items[view.list[i]].children # <<>>
       /\ i < Len(view.list)
       /\ Len(view.list) < Cardinality(Descendants(state, view.rootId))

\* ---------------------------------------------------------------- history (SpecHistory)
\* the history state now
Now == HistoryState(past, state, future, lastAction)

\* the last dispatched action reached the reducer, which returned
Engine(a) == a.type \notin {"UNDO", "REDO", "LOAD_STATE", "NONE"}
Reduced == phase = "history" /\ outcome = "ok" /\ Engine(act)

\* ... the store it was given / another store
Rejected == Reduced /\ same
Changed == Reduced /\ ~same

\* the last dispatched action was an UPDATE_TEXT of the id lastAction held
Coalesced ==
  /\ act.type = "UPDATE_TEXT"
  /\ before.lastAction.type = "UPDATE_TEXT"
  /\ before.lastAction.id = act.id

\* the last dispatched action was an UPDATE_TEXT of an item of the store
TextSet == Reduced /\ act.type = "UPDATE_TEXT" /\ Has(prev, act.id)

\* the last dispatch pushed the store it found onto past
Pushed == past = Append(before.past, prev)

\* C26 (no-op actions): when the reducer returns the store it was given, past,
\* present, future and lastAction are what they were before the dispatch; the
\* redo stack is not cleared.
C26_NoOpKeepsHistory ==
  Rejected =>
    /\ past = before.past
    /\ state = prev
    /\ future = before.future
    /\ lastAction = before.lastAction

\* C26's case: an action is rejected while there is a store to redo
C26_Witness ==
  /\ Rejected
  /\ future # <<>>

\* C27 (store-changing actions): an action for which the reducer returns
\* another store empties future, merged UPDATE_TEXT included; unless it is
\* merged it appends the previous present to past, whose earlier entries stay;
\* a REDO dispatched next returns the history state it was given.
C27_ChangeClearsFuture ==
  Changed =>
    /\ future = <<>>
    /\ ~Coalesced => Pushed
    /\ historyReducer(Now, ActRedo) = SameHistory(Now)

\* C27's case: a store-changing action is dispatched while there is a store to
\* redo
C27_Witness ==
  /\ Changed
  /\ before.future # <<>>
  /\ past # <<>>

\* C28 (coalescing): a run of k >= 1 UPDATE_TEXT actions on one existing item,
\* started when lastAction was not an UPDATE_TEXT of that item, adds one entry
\* to past, the store before the first of them; present holds the text of the
\* last one; an UNDO dispatched next makes the store before the run present.
C28_Coalescing ==
  (phase = "history" /\ outcome = "ok" /\ burst.k >= 1) =>
    /\ past = Append(burst.past, burst.base)
    /\ state.items[burst.id].text = burst.text
    /\ historyReducer(Now, ActUndo).h.present = burst.base

\* C28's case: two UPDATE_TEXT actions in a row on one item, with different
\* texts, after an action that was pushed
C28_Witness ==
  /\ phase = "history"
  /\ burst.k >= 2
  /\ burst.past # <<>>
  /\ burst.base.items[burst.id].text # burst.text
  /\ prev.items[burst.id].text # burst.text

\* C29 (coalescing stops): an UPDATE_TEXT of an existing item dispatched right
\* after an action that is not an UPDATE_TEXT of the same item pushes a new
\* entry onto past, whether or not that action changed the store.
C29_InterveningAction ==
  (TextSet /\ before.act.type # "NONE"
           /\ ~(before.act.type = "UPDATE_TEXT" /\ before.act.id = act.id)) =>
    Pushed

\* C30 (history traversal): an UPDATE_TEXT of an existing item dispatched right
\* after an UNDO or a REDO, one that found its stack empty included, pushes a
\* new entry onto past.
C30_TraversalResetsMarker ==
  (TextSet /\ before.act.type \in {"UNDO", "REDO"}) => Pushed

\* the stores of a history state, oldest first
Timeline(h) == h.past \o <<h.present>> \o h.future

\* the history state UNDO / REDO gives from h
AfterUndo(h) == historyReducer(h, ActUndo).h
AfterRedo(h) == historyReducer(h, ActRedo).h

InHistory == phase = "history" /\ outcome = "ok"

\* C31 (undo and redo): UNDO with an empty past and REDO with an empty future
\* return the history state they were given; with a non-empty past UNDO then
\* REDO gives the same past, present and future, and with a non-empty future
\* so does REDO then UNDO; UNDO and REDO keep the sequence of past, present
\* and future.
C31_UndoRedoInverse ==
  InHistory =>
    /\ past = <<>> => historyReducer(Now, ActUndo) = SameHistory(Now)
    /\ future = <<>> => historyReducer(Now, ActRedo) = SameHistory(Now)
    /\ past # <<>> =>
         LET r == AfterRedo(AfterUndo(Now))
         IN r.past = past /\ r.present = state /\ r.future = future
    /\ future # <<>> =>
         LET u == AfterUndo(AfterRedo(Now))
         IN u.past = past /\ u.present = state /\ u.future = future
    /\ Timeline(AfterUndo(Now)) = Timeline(Now)
    /\ Timeline(AfterRedo(Now)) = Timeline(Now)
    /\ act.type \in {"UNDO", "REDO"} =>
         Timeline(Now) = before.past \o <<prev>> \o before.future

\* C31's case: an UNDO has moved a store while both stacks hold one
C31_Witness ==
  /\ InHistory
  /\ act.type = "UNDO"
  /\ ~same
  /\ past # <<>>
  /\ future # <<>>
  /\ state # prev

\* the history state n UNDO / n REDO in a row give from h
RECURSIVE UndoTimes(_, _)
UndoTimes(h, n) == IF n = 0 THEN h ELSE UndoTimes(AfterUndo(h), n - 1)
RECURSIVE RedoTimes(_, _)
RedoTimes(h, n) == IF n = 0 THEN h ELSE RedoTimes(AfterRedo(h), n - 1)

\* the last n store-changing actions dispatched in a row: n UNDO make the
\* store the first of them was given present, n REDO after that make the
\* store the last of them returned present
RoundTrip(n) ==
  LET back == UndoTimes(Now, n)
  IN /\ back.present = run[Len(run) - n + 1].store
     /\ RedoTimes(back, n).present = state

\* none of the last n store-changing actions was merged into the entry before
NoneMerged(n) == \A i \in (Len(run) - n + 1)..Len(run) : ~run[i].merged

\* C32 as stated (undo/redo inverse law): after any n store-changing actions
\* dispatched in a row from any history state, n UNDO bring back the store
\* that was present before the first and n REDO the store after the last.
C32_InverseLawAnySequence ==
  InHistory => \A n \in 1..Len(run) : RoundTrip(n)

\* C32 (undo/redo inverse law): after n store-changing actions dispatched in a
\* row from any history state, none of them an UPDATE_TEXT merged into the
\* entry before, n UNDO bring back the store that was present before the
\* first and n REDO after that the store that was present after the last.
C32_InverseLaw ==
  InHistory => \A n \in 1..Len(run) : NoneMerged(n) => RoundTrip(n)

\* C32's case: three store-changing actions in a row, none merged, each
\* giving another store
C32_Witness ==
  /\ InHistory
  /\ Len(run) >= 3
  /\ NoneMerged(3)
  /\ \A i, j \in 1..Len(run) : run[i].store = run[j].store => i = j
  /\ \A i \in 1..Len(run) : run[i].store # state

\* the last dispatched action was a LOAD_STATE
Loaded == InHistory /\ act.type = "LOAD_STATE"

\* C33 (load): LOAD_STATE of a store s from any history state gives past = [],
\* present = s, future = [] and no lastAction; an UNDO or a REDO dispatched
\* next leaves s present.
C33_LoadState ==
  Loaded =>
    /\ past = <<>>
    /\ state = act.state
    /\ future = <<>>
    /\ lastAction = NoAction
    /\ AfterUndo(Now).present = act.state
    /\ AfterRedo(Now).present = act.state

\* C33's case: a store other than present is loaded while there is a store
\* to redo
C33_Witness ==
  /\ Loaded
  /\ before.future # <<>>
  /\ state # prev

MergedInto(p) ==
  /\ phase = "merged"
  /\ p = mergeTarget(act)
  /\ act.otherId # Null => act.otherId \in Range(prev.items[act.parentId].children)

\* C35 (merge round trip): on a well-formed store, ADD_ITEM of a fresh id as
\* next sibling after p or as first child of p, then MERGE_UP of the new item
\* into p, leaves the text and the children list of p as they were before the
\* ADD_ITEM, and the new id is not a key.
C35_MergeRoundTrip ==
  \A p \in Ids :
    MergedInto(p) =>
      /\ outcome = "ok"
      /\ ~same
      /\ state.items[p].text = prev.items[p].text
      /\ state.items[p].children = prev.items[p].children
      /\ act.id \notin DOMAIN state.items

\* C35's case: the new item is added after a collapsed item that has a text
\* and a child, and merged into it
C35_Witness ==
  \E p \in Ids :
    /\ MergedInto(p)
    /\ act.otherId = p
    /\ prev.items[p].text # <<>>
    /\ prev.items[p].children # <<>>
    /\ prev.items[p].collapsed

\* ---------------------------------------------------------------- ids (SpecIds)
\* C36 (ids are never reused): an ADD_ITEM that adds an item never has for new
\* id an id that is a key of items or that was one earlier.
C36_IdsNeverReused ==
  [][(steps' = steps + 1 /\ act'.type = "ADD_ITEM" /\ outcome' = "ok" /\ ~same')
       => act'.id \notin used]_vars

\* ---------------------------------------------------------------- import (SpecImport)
\* the lines that are not empty, in order
ItemLines == SelectSeq(txt, LAMBDA line : Len(line) > 0)

\* the depth of the item of the i-th such line: its leading hyphens, at most
\* one more than the depth of the item before (0 for the first)
RECURSIVE ClampedDepth(_)
ClampedDepth(i) ==
  LET hyphens == leadingHyphens(ItemLines[i])
      deepest == IF i = 1 THEN 0 ELSE ClampedDepth(i - 1) + 1
  IN IF hyphens < deepest THEN hyphens ELSE deepest

\* the parent of that item: the root at depth 0, else the item most recently
\* created one level up
ExpectedParent(i) ==
  IF ClampedDepth(i) = 0 THEN INITIAL_ROOT_ID
  ELSE LET above == {j \in 1..(i - 1) : ClampedDepth(j) = ClampedDepth(i) - 1}
       IN ImportIds[CHOOSE j \in above : \A k \in above : k <= j]

\* C37 (import): every line that is not empty becomes one item; its parent is
\* the item most recently created one level above its clamped depth (the root
\* at depth 0); every item is a child of exactly one item, once, and is
\* reachable from the root, also after a line that skips levels.
C37_ImportBuildsTree ==
  phase = "imported" =>
    /\ DOMAIN state.items =
         {INITIAL_ROOT_ID} \cup {ImportIds[i] : i \in 1..Len(ItemLines)}
    /\ \A i \in 1..Len(ItemLines) :
         /\ ParentsOf(state, ImportIds[i]) = {ExpectedParent(i)}
         /\ Occurrences(state, ImportIds[i]) = 1
         /\ ImportIds[i] \in Descendants(state, INITIAL_ROOT_ID)

\* ---------------------------------------------------------------- export (SpecExport)
\* the lines of the visible nodes below the items of ids, in pre-order, each
\* ended by a line feed
RECURSIVE VisibleLines(_, _, _)
VisibleLines(st, ids, depth) ==
  IF ids = <<>> THEN <<>>
  ELSE LET item == st.items[Head(ids)]
       IN prefix(depth) \o stripHtml(item.text) \o <<"\n">>
          \o (IF item.collapsed THEN <<>>
              ELSE VisibleLines(st, item.children, depth + 1))
          \o VisibleLines(st, Tail(ids), depth)

\* C38 (export): the exported text is one line per visible node under the
\* export root, in pre-order, each line depth-many hyphens followed by the
\* node's plain text, with the white space at its end trimmed; the descendants
\* of a collapsed item are not emitted.
C38_ExportVisibleNodes ==
  phase = "exported" =>
    txt = trimEnd(VisibleLines(state, state.items[act.id].children, 0))

\* ---------------------------------------------------------------- no duplicate children (Spec)
\* C39 (no duplicate children): after any sequence of engine actions from the
\* default store, no item's children list holds the same id twice.
C39_NoDuplicateChildren ==
  \A k \in DOMAIN state.items :
    \A i, j \in DOMAIN state.items[k].children :
      state.items[k].children[i] = state.items[k].children[j] => i = j

\* ---------------------------------------------------------------- load and save (SpecPersist)
\* C40 (failed load never overwrites): a save is scheduled, and the remote
\* document is written by a save, only when the present store descends from a
\* document that was loaded or newly created; never after a load that failed.
C40_NoSaveWithoutLoad ==
  (hook.timeoutId.set \/ hook.remote.writer = "save") => hook.loaded

====
